---- MODULE Spec2Model ----
(***************************************************************************)
(* Model of the financial-profile application: the Next.js API route       *)
(* handlers (clients, assets, AI chat / analyze / scenarios), the AI       *)
(* service layer (AIClient, ContextBuilder, PortfolioAnalyzer,             *)
(* ScenarioPlanner) and the Supabase store with its row-level-security     *)
(* policies and ON DELETE CASCADE foreign keys.                            *)
(*                                                                         *)
(* One request is served per step.  `last` is the record of the request    *)
(* served by the step: who asked, the statements the handler issued in     *)
(* order (`events`), and the response it returned.                         *)
(***************************************************************************)
EXTENDS Integers, Sequences, FiniteSets, TLC

\* ------------------------------------------------------------------ bounds
MaxClients == 2     \* client ids are 1..MaxClients
MaxAssets == 1      \* asset ids are 1..MaxAssets
MaxHistory == 2     \* rows the ai_chat_history table may hold

\* --------------------------------------------------------------- universes
Advisors == {"A", "B"}
NoUser == "none"
ClientIds == 1..MaxClients
NoId == 0
\* request bodies: the `name` of a client body ("" is present but empty)
Names == {"", "n1", "n2"}
\* chat body fields; "" stands for an absent / empty (falsy) field
Messages == {"", "q"}
NoSession == <<>>
RequestSessions == {NoSession, <<"req">>}

VARIABLES
    clients,           \* table clients: set of rows [id, advisor_id, name]
    assets,            \* table assets: set of rows
    ai_chat_history,   \* table ai_chat_history: sequence of rows, in insert order
    last,              \* the request being answered (handler "none": none)
    pageAssets,        \* DashboardPage: the `assets` state
    isEditing,         \* AssetCard i: the field being edited, or "null"
    tempValue,         \* AssetCard i: the text of its input
    pressed,           \* the key of the last event on the page, "" when the
                       \* last event was no key press
    calc               \* a call of one of the calculations

vars == <<clients, assets, ai_chat_history, last, pageAssets, isEditing,
          tempValue, pressed, calc>>

\* ------------------------------------------------------------ api-response
Response(status, success, message, errors) ==
    [status |-> status, success |-> success, message |-> message, errors |-> errors]

successResponse(message) == Response(200, TRUE, message, <<>>)

errorResponse(message, status, errors) == Response(status, FALSE, message, errors)

unauthorizedResponse == errorResponse("Unauthorized", 401, <<>>)

notFoundResponse(resource) == errorResponse(resource \o " not found", 404, <<>>)

\* The three route files that call validationErrorResponse import
\* { successResponse, errorResponse, unauthorizedResponse[, notFoundResponse] }
\* only: the name is unbound in them.
RouteImports ==
    [clients_route |-> {"successResponse", "errorResponse", "unauthorizedResponse"},
     client_id_route |-> {"successResponse", "errorResponse", "unauthorizedResponse",
                          "notFoundResponse"},
     assets_route |-> {"successResponse", "errorResponse", "unauthorizedResponse",
                       "notFoundResponse"}]

\* `return validationErrorResponse(validation.errors)` inside the handler's
\* try block: with the name imported it is errorResponse('Validation failed',
\* 422, errors); with the name unbound the call throws a ReferenceError, and
\* the handler's catch answers errorResponse('Internal server error', 500).
validationErrorResponse(route, errors) ==
    IF "validationErrorResponse" \in RouteImports[route]
    THEN errorResponse("Validation failed", 422, errors)
    ELSE errorResponse("Internal server error", 500, <<>>)

\* ------------------------------------------------------------- validations
\* clientSchema: name is z.string().min(1, 'Name is required'); the other
\* fields are optional and are left out of the modelled body.
validateClientInput(body) ==
    LET ok == body.name # ""
    IN [success |-> ok,
        data |-> IF ok THEN {[name |-> body.name]} ELSE {},
        errors |-> IF ok THEN <<>> ELSE <<"Name is required">>]

\* assetSchema: asset_type enum, name non-empty, current_value positive,
\* growth_rate within [-100, 100], projection_years an integer within [1, 50]
\* defaulting to 10.  A body is [asset_type, name, current_value, growth_rate,
\* has_years, projection_years, years_tenths]; has_years = FALSE is a body
\* without projection_years, and the number sent is projection_years +
\* years_tenths / 10.
AssetTypes == {"residence", "rrsp", "tfsa", "investment", "savings"}

assetSchemaErrors(body) ==
    (IF body.asset_type \in AssetTypes THEN <<>> ELSE <<"Invalid enum value">>)
    \o (IF body.name # "" THEN <<>> ELSE <<"Name is required">>)
    \o (IF body.current_value > 0 THEN <<>> ELSE <<"Current value must be positive">>)
    \o (IF body.growth_rate >= -100 THEN <<>>
        ELSE <<"Number must be greater than or equal to -100">>)
    \o (IF body.growth_rate <= 100 THEN <<>>
        ELSE <<"Number must be less than or equal to 100">>)
    \o (IF ~body.has_years \/ body.years_tenths = 0 THEN <<>>
        ELSE <<"Expected integer, received float">>)
    \o (IF ~body.has_years \/ body.projection_years >= 1 THEN <<>>
        ELSE <<"Number must be greater than or equal to 1">>)
    \o (IF ~body.has_years \/ body.projection_years < 50
           \/ (body.projection_years = 50 /\ body.years_tenths = 0) THEN <<>>
        ELSE <<"Number must be less than or equal to 50">>)

validateAssetInput(body) ==
    LET errs == assetSchemaErrors(body)
        ok == errs = <<>>
    IN [success |-> ok,
        data |-> IF ok
                 THEN {[asset_type |-> body.asset_type,
                        current_value |-> body.current_value,
                        growth_rate |-> body.growth_rate,
                        projection_years |-> IF body.has_years
                                             THEN body.projection_years ELSE 10]}
                 ELSE {},
        errors |-> errs]

\* ------------------------------------------------------------------ store
\* createServerSupabaseClient: the client is built with the anon key and the
\* request's cookies, so every statement runs as role "authenticated" with
\* auth.uid() = the signed-in user and the row-level-security policies apply.
ServiceRoleKey == "SUPABASE_SERVICE_ROLE_KEY"
AnonKey == "NEXT_PUBLIC_SUPABASE_ANON_KEY"

createServerSupabaseClient_ServiceRole == ServiceRoleKey

createServerSupabaseClient == AnonKey

BypassesRLS == createServerSupabaseClient = ServiceRoleKey

\* POLICY "Advisors can manage their clients" ON clients
\*   FOR ALL USING (advisor_id = auth.uid())
ClientsPolicy_AnyAdvisor(uid, row) == uid \in Advisors

ClientsPolicy(uid, row) == row.advisor_id = uid

\* POLICY "Advisors can manage client assets" ON assets FOR ALL USING
\*   (client_id IN (SELECT id FROM clients WHERE advisor_id = auth.uid()))
AssetsPolicy(uid, row) ==
    \E c \in clients : c.advisor_id = uid /\ c.id = row.client_id

\* POLICY "Advisors can access client chat history" ON ai_chat_history
\*   FOR ALL USING (user_id = auth.uid())
ChatHistoryPolicy(uid, row) == row.user_id = uid

\* the rows of each table a statement issued as uid can see or touch
VisibleClients(uid) == {c \in clients : BypassesRLS \/ ClientsPolicy(uid, c)}

VisibleAssets(uid) == {a \in assets : BypassesRLS \/ AssetsPolicy(uid, a)}

\* .single(): data is the one matching row; no row (or several) is an error
\* with data null.  The result is the set holding the row, or {}.
single(rows) == IF Cardinality(rows) = 1 THEN rows ELSE {}

\* clients.id is the primary key, DEFAULT uuid_generate_v4(): a new row gets
\* an id no row holds.
FreeClientIds == ClientIds \ {c.id : c \in clients}

AssetIds == 1..MaxAssets

FreeAssetIds == AssetIds \ {a.id : a \in assets}

\* REFERENCES clients(id) ON DELETE CASCADE on assets.client_id and
\* ai_chat_history.client_id: deleting client rows deletes their rows.
CascadeAssets(deleted) == {a \in assets : a.client_id \notin {c.id : c \in deleted}}

\* crypto.randomUUID(): an id no row of ai_chat_history carries (ids sent by
\* a caller are <<"req">>, generated ones <<"uuid", n>>).
randomUUID ==
    LET used == {ai_chat_history[i].session_id : i \in DOMAIN ai_chat_history}
    IN <<"uuid", CHOOSE n \in 1..(Len(ai_chat_history) + 1) :
                    /\ <<"uuid", n>> \notin used
                    /\ \A m \in 1..(n - 1) : <<"uuid", m>> \in used>>

CascadeHistory(deleted) ==
    SelectSeq(ai_chat_history, LAMBDA r : r.client_id \notin {c.id : c \in deleted})
\* ---------------------------------------------------------------- requests
\* supabase.auth.getUser(): an error, no user, or the signed-in advisor
AuthOutcomes ==
    {[error |-> TRUE, user |-> NoUser], [error |-> FALSE, user |-> NoUser]}
    \cup {[error |-> FALSE, user |-> u] : u \in Advisors}

\* if (authError || !user) return unauthorizedResponse()
Unauthorized_ErrorOnly(auth) == auth.error

Unauthorized(auth) == auth.error \/ auth.user = NoUser

ClientBodies == [name : Names]

\* a body the schema accepts, and the bodies that differ from it in one
\* field (or, the last one, in two)
ValidAssetBody ==
    [asset_type |-> "savings", name |-> "n1", current_value |-> 100,
     growth_rate |-> 5, has_years |-> FALSE, projection_years |-> 0,
     years_tenths |-> 0]

AssetBodies ==
    {ValidAssetBody,
     [ValidAssetBody EXCEPT !.has_years = TRUE, !.projection_years = 10],
     [ValidAssetBody EXCEPT !.asset_type = "crypto"],
     [ValidAssetBody EXCEPT !.name = ""],
     [ValidAssetBody EXCEPT !.current_value = 0],
     [ValidAssetBody EXCEPT !.current_value = -5],
     [ValidAssetBody EXCEPT !.growth_rate = -101],
     [ValidAssetBody EXCEPT !.growth_rate = 150],
     [ValidAssetBody EXCEPT !.has_years = TRUE, !.projection_years = 0],
     [ValidAssetBody EXCEPT !.has_years = TRUE, !.projection_years = 51],
     [ValidAssetBody EXCEPT !.has_years = TRUE, !.projection_years = 10,
                            !.years_tenths = 5],
     [ValidAssetBody EXCEPT !.current_value = 0, !.growth_rate = 150]}

\* The record of a request before its handler has done anything.
\*   events      the identity-provider, store and model calls issued, in order
\*   resp        the response returned
\*   retClients, retAssets   the table rows carried in the response's data
\*   ctx         the ClientContext buildClientContext returned (at most one)
\*   modelCtx    the ClientContext sent to the model (at most one)
\*   modelOutcome  what the model call did ("none": no call)
\*   aiResponse  data.response of a chat answer (at most one string)
\*   analysis    data.analysis / data.scenario_result of an AI answer
\*   session_id  data.session_id of a chat answer
\*   storeFailed a store statement of the request failed
\*   inserted    rows the request added to the store
\*   caught      message of the Error the handler's catch block received
Request(handler, auth, id, bodyValid) ==
    [handler |-> handler, user |-> auth.user, authError |-> auth.error,
     id |-> id, bodyValid |-> bodyValid,
     events |-> <<>>, resp |-> Response(0, FALSE, "", <<>>),
     retClients |-> {}, retAssets |-> {},
     ctx |-> {}, modelCtx |-> {}, modelOutcome |-> "none",
     aiResponse |-> {}, analysis |-> "none",
     message |-> "", sessionId |-> NoSession, session_id |-> NoSession,
     storeFailed |-> FALSE, inserted |-> 0, caught |-> ""]

Reply(req, events, resp) == [req EXCEPT !.events = events, !.resp = resp]

NoRequest == Request("none", [error |-> FALSE, user |-> NoUser], NoId, TRUE)

\* no request is being answered
Idle == last.handler = "none"

StoreUnchanged == UNCHANGED <<clients, assets, ai_chat_history>>

\* a route handler runs on the server: the dashboard page in the browser and
\* the calculations are not its state
ClientUnchanged == UNCHANGED <<pageAssets, isEditing, tempValue, pressed, calc>>

\* --------------------------------------------- app/api/clients/route.ts
ClientsGET ==
    /\ Idle
    /\ ClientUnchanged
    /\ \E auth \in AuthOutcomes :
        LET req == Request("GET /api/clients", auth, NoId, TRUE) IN
        /\ StoreUnchanged
        /\ IF Unauthorized(auth)
           THEN last' = Reply(req, <<"auth.getUser">>, unauthorizedResponse)
           ELSE \E fail \in BOOLEAN :
                LET ev == <<"auth.getUser", "select:clients">>
                    rows == {c \in VisibleClients(auth.user) : c.advisor_id = auth.user}
                    nested == {a \in VisibleAssets(auth.user) :
                                  a.client_id \in {c.id : c \in rows}}
                IN IF fail
                   THEN last' = [Reply(req, ev,
                                       errorResponse("Failed to fetch clients", 500, <<>>))
                                 EXCEPT !.storeFailed = TRUE]
                   ELSE last' = [Reply(req, ev, successResponse(""))
                                 EXCEPT !.retClients = rows, !.retAssets = nested]

ClientsPOST ==
    /\ Idle
    /\ ClientUnchanged
    /\ \E auth \in AuthOutcomes, body \in ClientBodies :
        LET validation == validateClientInput(body)
            req == Request("POST /api/clients", auth, NoId, validation.success)
        IN
        /\ UNCHANGED <<assets, ai_chat_history>>
        /\ IF Unauthorized(auth)
           THEN /\ last' = Reply(req, <<"auth.getUser">>, unauthorizedResponse)
                /\ UNCHANGED clients
           ELSE IF ~validation.success
           THEN /\ last' = Reply(req, <<"auth.getUser">>,
                                 validationErrorResponse("clients_route",
                                                         validation.errors))
                /\ UNCHANGED clients
           ELSE /\ FreeClientIds # {}
                /\ \E fail \in BOOLEAN, id \in FreeClientIds :
                   LET ev == <<"auth.getUser", "insert:clients">>
                       row == [id |-> id, advisor_id |-> auth.user, name |-> body.name]
                       allowed == BypassesRLS \/ ClientsPolicy(auth.user, row)
                   IN IF fail \/ ~allowed
                      THEN /\ last' = [Reply(req, ev,
                                             errorResponse("Failed to create client",
                                                           500, <<>>))
                                       EXCEPT !.storeFailed = TRUE]
                           /\ UNCHANGED clients
                      ELSE /\ last' = [Reply(req, ev,
                                             successResponse("Client created successfully"))
                                       EXCEPT !.retClients = {row}, !.inserted = 1]
                           /\ clients' = clients \cup {row}

\* ---------------------------------------- app/api/clients/[id]/route.ts
ClientGET ==
    /\ Idle
    /\ ClientUnchanged
    /\ \E auth \in AuthOutcomes, id \in ClientIds :
        LET req == Request("GET /api/clients/[id]", auth, id, TRUE) IN
        /\ StoreUnchanged
        /\ IF Unauthorized(auth)
           THEN last' = Reply(req, <<"auth.getUser">>, unauthorizedResponse)
           ELSE \E fail \in BOOLEAN :
                LET ev == <<"auth.getUser", "select:clients">>
                    data == IF fail THEN {}
                            ELSE single({c \in VisibleClients(auth.user) :
                                            c.id = id /\ c.advisor_id = auth.user})
                    nested == {a \in VisibleAssets(auth.user) :
                                  a.client_id \in {c.id : c \in data}}
                IN IF data = {}
                   THEN last' = [Reply(req, ev, notFoundResponse("Client"))
                                 EXCEPT !.storeFailed = fail]
                   ELSE last' = [Reply(req, ev, successResponse(""))
                                 EXCEPT !.retClients = data, !.retAssets = nested]

\* the route as given in the project rules: the query names the id only and
\* leaves the ownership filter to row-level security
ClientGET_RLS ==
    /\ Idle
    /\ ClientUnchanged
    /\ \E auth \in AuthOutcomes, id \in ClientIds :
        LET req == Request("GET /api/clients/[id] (RLS)", auth, id, TRUE) IN
        /\ StoreUnchanged
        /\ IF Unauthorized(auth)
           THEN last' = Reply(req, <<"auth.getUser">>, unauthorizedResponse)
           ELSE \E fail \in BOOLEAN :
                LET ev == <<"auth.getUser", "select:clients">>
                    data == IF fail THEN {}
                            ELSE single({c \in VisibleClients(auth.user) : c.id = id})
                IN IF data = {}
                   THEN last' = [Reply(req, ev, errorResponse("Client not found",
                                                              404, <<>>))
                                 EXCEPT !.storeFailed = fail]
                   ELSE last' = [Reply(req, ev, successResponse(""))
                                 EXCEPT !.retClients = data]

ClientPUT ==
    /\ Idle
    /\ ClientUnchanged
    /\ \E auth \in AuthOutcomes, id \in ClientIds, body \in ClientBodies :
        LET validation == validateClientInput(body)
            req == Request("PUT /api/clients/[id]", auth, id, validation.success)
        IN
        /\ UNCHANGED <<assets, ai_chat_history>>
        /\ IF Unauthorized(auth)
           THEN /\ last' = Reply(req, <<"auth.getUser">>, unauthorizedResponse)
                /\ UNCHANGED clients
           ELSE IF ~validation.success
           THEN /\ last' = Reply(req, <<"auth.getUser">>,
                                 validationErrorResponse("client_id_route",
                                                         validation.errors))
                /\ UNCHANGED clients
           ELSE \E fail \in BOOLEAN :
                LET ev == <<"auth.getUser", "update:clients">>
                    matched == IF fail THEN {}
                               ELSE {c \in VisibleClients(auth.user) :
                                        c.id = id /\ c.advisor_id = auth.user}
                    updated == {[c EXCEPT !.name = body.name] : c \in matched}
                    data == single(updated)
                IN /\ clients' = (clients \ matched) \cup updated
                   /\ IF data = {}
                      THEN last' = [Reply(req, ev, notFoundResponse("Client"))
                                    EXCEPT !.storeFailed = fail]
                      ELSE last' = [Reply(req, ev,
                                          successResponse("Client updated successfully"))
                                    EXCEPT !.retClients = data]

ClientDELETE ==
    /\ Idle
    /\ ClientUnchanged
    /\ \E auth \in AuthOutcomes, id \in ClientIds :
        LET req == Request("DELETE /api/clients/[id]", auth, id, TRUE) IN
        /\ IF Unauthorized(auth)
           THEN /\ last' = Reply(req, <<"auth.getUser">>, unauthorizedResponse)
                /\ UNCHANGED <<clients, assets, ai_chat_history>>
           ELSE \E fail \in BOOLEAN :
                LET ev == <<"auth.getUser", "delete:clients">>
                    matched == IF fail THEN {}
                               ELSE {c \in VisibleClients(auth.user) :
                                        c.id = id /\ c.advisor_id = auth.user}
                IN /\ clients' = clients \ matched
                   /\ assets' = CascadeAssets(matched)
                   /\ ai_chat_history' = CascadeHistory(matched)
                   /\ IF fail
                      THEN last' = [Reply(req, ev,
                                          errorResponse("Failed to delete client",
                                                        500, <<>>))
                                    EXCEPT !.storeFailed = TRUE]
                      ELSE last' = Reply(req, ev,
                                         successResponse("Client deleted successfully"))
\* --------------------------------- app/api/clients/[id]/assets/route.ts
\* "Verify client ownership": select id from clients where id = params.id
\* and advisor_id = user.id, .single(); only `data` is read, so a failed
\* statement is a null client.
verifyClientOwnership(uid, id, fail) ==
    IF fail THEN {}
    ELSE single({c \in VisibleClients(uid) : c.id = id /\ c.advisor_id = uid})

AssetsGET ==
    /\ Idle
    /\ ClientUnchanged
    /\ \E auth \in AuthOutcomes, id \in ClientIds :
        LET req == Request("GET /api/clients/[id]/assets", auth, id, TRUE) IN
        /\ StoreUnchanged
        /\ IF Unauthorized(auth)
           THEN last' = Reply(req, <<"auth.getUser">>, unauthorizedResponse)
           ELSE \E fail1 \in BOOLEAN :
                LET client == verifyClientOwnership(auth.user, id, fail1)
                    ev1 == <<"auth.getUser", "select:clients">>
                IN IF client = {}
                   THEN last' = [Reply(req, ev1, notFoundResponse("Client"))
                                 EXCEPT !.storeFailed = fail1]
                   ELSE \E fail2 \in BOOLEAN :
                        LET ev2 == Append(ev1, "select:assets")
                            data == {a \in VisibleAssets(auth.user) : a.client_id = id}
                        IN IF fail2
                           THEN last' = [Reply(req, ev2,
                                               errorResponse("Failed to fetch assets",
                                                             500, <<>>))
                                         EXCEPT !.storeFailed = TRUE]
                           ELSE last' = [Reply(req, ev2, successResponse(""))
                                         EXCEPT !.retAssets = data]

AssetsPOST ==
    /\ Idle
    /\ ClientUnchanged
    /\ \E auth \in AuthOutcomes, id \in ClientIds, body \in AssetBodies :
        LET validation == validateAssetInput(body)
            req == Request("POST /api/clients/[id]/assets", auth, id,
                           validation.success)
        IN
        /\ UNCHANGED <<clients, ai_chat_history>>
        /\ IF Unauthorized(auth)
           THEN /\ last' = Reply(req, <<"auth.getUser">>, unauthorizedResponse)
                /\ UNCHANGED assets
           ELSE \E fail1 \in BOOLEAN :
                LET client == verifyClientOwnership(auth.user, id, fail1)
                    ev1 == <<"auth.getUser", "select:clients">>
                IN IF client = {}
                   THEN /\ last' = [Reply(req, ev1, notFoundResponse("Client"))
                                    EXCEPT !.storeFailed = fail1]
                        /\ UNCHANGED assets
                   ELSE IF ~validation.success
                   THEN /\ last' = Reply(req, ev1,
                                         validationErrorResponse("assets_route",
                                                                 validation.errors))
                        /\ UNCHANGED assets
                   ELSE /\ FreeAssetIds # {}
                        /\ \E fail2 \in BOOLEAN, aid \in FreeAssetIds :
                           LET ev2 == Append(ev1, "insert:assets")
                               v == CHOOSE d \in validation.data : TRUE
                               row == [id |-> aid, client_id |-> id,
                                       asset_type |-> v.asset_type,
                                       current_value |-> v.current_value,
                                       growth_rate |-> v.growth_rate,
                                       projection_years |-> v.projection_years]
                               allowed == BypassesRLS \/ AssetsPolicy(auth.user, row)
                           IN IF fail2 \/ ~allowed
                              THEN /\ last' = [Reply(req, ev2,
                                                     errorResponse("Failed to create asset",
                                                                   500, <<>>))
                                               EXCEPT !.storeFailed = TRUE]
                                   /\ UNCHANGED assets
                              ELSE /\ last' = [Reply(req, ev2,
                                                     successResponse(
                                                         "Asset created successfully"))
                                               EXCEPT !.retAssets = {row}, !.inserted = 1]
                                   /\ assets' = assets \cup {row}
\* ------------------------------------------------------ lib/ai/openai.ts
\* What openai.chat.completions.create does for one call:
\*   "throws"     the API call rejects (network, rate limit, timeout)
\*   "empty"      choices[0]?.message?.content is null or ''
\*   "malformed"  content is text that is not valid JSON
\*   "ok"         content is an answer (valid JSON on the structured path)
FreeFormOutcomes == {"throws", "empty", "ok"}
StructuredOutcomes == {"throws", "empty", "malformed", "ok"}

\* AIClient.generateResponse: `content || ''`; a rejected call is caught and
\* rethrown as Error('Failed to generate AI response').
generateResponse_Swallow(outcome) ==
    [thrown |-> FALSE,
     text |-> IF outcome = "ok" THEN "answer" ELSE ""]

generateResponse(outcome) ==
    [thrown |-> outcome = "throws",
     text |-> IF outcome = "ok" THEN "answer" ELSE ""]

\* AIClient.generateStructuredResponse: no content, unparseable content and a
\* rejected call all end in Error('Failed to generate structured response').
generateStructuredResponse(outcome) ==
    [thrown |-> outcome # "ok",
     value |-> IF outcome = "ok" THEN "json" ELSE "none"]

\* lib/openai.ts generateFinancialInsight (the first chat route's service):
\* `content || 'Unable to generate response'`.
generateFinancialInsight(outcome) ==
    [thrown |-> outcome = "throws",
     text |-> IF outcome = "ok" THEN "answer" ELSE "Unable to generate response"]

\* ----------------------------------------------------- lib/ai/context.ts
RECURSIVE SumCurrentValue(_)
\* assets.reduce((sum, asset) => sum + asset.current_value, 0)
SumCurrentValue(rows) ==
    IF rows = {} THEN 0
    ELSE LET r == CHOOSE x \in rows : TRUE
         IN r.current_value + SumCurrentValue(rows \ {r})

buildClientContext_NoCheck(clientId, uid, fail) ==
    {[client |-> [id |-> clientId, name |-> ""],
      portfolio |-> [total_assets |-> 0, total_liabilities |-> 0, net_worth |-> 0],
      assets |-> {}]}

\* ContextBuilder.buildClientContext: select from clients by id, .single();
\* `if (!client) throw new Error('Client not found')`.  The result is the set
\* holding the context, or {} when the builder threw.
buildClientContext(clientId, uid, fail) ==
    LET client == IF fail THEN {}
                  ELSE single({c \in VisibleClients(uid) : c.id = clientId})
    IN {[client |-> [id |-> c.id, name |-> c.name],
         portfolio |-> [total_assets |-> SumCurrentValue(
                            {a \in VisibleAssets(uid) : a.client_id = c.id}),
                        total_liabilities |-> 0,
                        net_worth |-> SumCurrentValue(
                            {a \in VisibleAssets(uid) : a.client_id = c.id})],
         assets |-> {a \in VisibleAssets(uid) : a.client_id = c.id}] : c \in client}

\* --------------------------------------------------- lib/ai/portfolio.ts
\* PortfolioAnalyzer.analyzePortfolio: the structured call sits in a try
\* whose catch logs and returns [].
analyzePortfolio(outcome) ==
    LET r == generateStructuredResponse(outcome)
    IN [thrown |-> FALSE, value |-> IF r.thrown THEN "[]" ELSE "insights"]

\* PortfolioAnalyzer.suggestRebalancing: no try; a failure propagates.
suggestRebalancing(outcome) ==
    LET r == generateStructuredResponse(outcome)
    IN [thrown |-> r.thrown, value |-> IF r.thrown THEN "none" ELSE "rebalancing"]

\* ScenarioPlanner.planScenario: no try; a failure propagates.
planScenario(outcome) ==
    LET r == generateStructuredResponse(outcome)
    IN [thrown |-> r.thrown, value |-> IF r.thrown THEN "none" ELSE "scenario_result"]
\* ------------------------------------------- app/api/ai/chat/route.ts
ChatClientIds == ClientIds \cup {NoId}

AIChatPOST ==
    /\ Idle
    /\ ClientUnchanged
    /\ \E auth \in AuthOutcomes, message \in Messages, clientId \in ChatClientIds,
       sessionId \in RequestSessions :
        LET bodyValid == message # "" /\ clientId # NoId
            req == [Request("POST /api/ai/chat", auth, clientId, bodyValid)
                    EXCEPT !.message = message, !.sessionId = sessionId]
            ev0 == <<"auth.getUser">>
        IN
        /\ UNCHANGED <<clients, assets>>
        /\ IF Unauthorized(auth)
           THEN /\ last' = Reply(req, ev0, unauthorizedResponse)
                /\ UNCHANGED <<ai_chat_history>>
           ELSE IF ~bodyValid
           THEN /\ last' = Reply(req, ev0,
                                 errorResponse("Message and client ID are required",
                                               400, <<>>))
                /\ UNCHANGED <<ai_chat_history>>
           ELSE \E fail1 \in BOOLEAN :
                LET context == buildClientContext(clientId, auth.user, fail1)
                    ev1 == Append(ev0, "select:clients")
                IN IF context = {}
                   THEN /\ last' = [Reply(req, ev1,
                                          errorResponse("Failed to process AI request",
                                                        500, <<>>))
                                    EXCEPT !.storeFailed = fail1,
                                           !.caught = "Client not found"]
                        /\ UNCHANGED <<ai_chat_history>>
                   ELSE \E outcome \in FreeFormOutcomes :
                        LET ai == generateResponse(outcome)
                            ev2 == Append(ev1, "model")
                            called == [req EXCEPT !.ctx = context, !.modelCtx = context,
                                                  !.modelOutcome = outcome]
                        IN IF ai.thrown
                           THEN /\ last' = [Reply(called, ev2,
                                                  errorResponse(
                                                      "Failed to process AI request",
                                                      500, <<>>))
                                            EXCEPT !.caught = "Failed to generate AI response"]
                                /\ UNCHANGED <<ai_chat_history>>
                           ELSE /\ Len(ai_chat_history) + 2 <= MaxHistory
                                /\ \E fail2 \in BOOLEAN :
                                   LET session_id == IF sessionId # NoSession
                                                     THEN sessionId
                                                     ELSE randomUUID
                                       chatEntry ==
                                           [client_id |-> clientId, user_id |-> auth.user,
                                            session_id |-> session_id,
                                            message_type |-> "user",
                                            message_content |-> message,
                                            context_data |-> {c.client.id : c \in context}]
                                       rows == <<chatEntry,
                                                 [chatEntry EXCEPT
                                                     !.message_type = "assistant",
                                                     !.message_content = ai.text]>>
                                       allowed == BypassesRLS
                                                  \/ ChatHistoryPolicy(auth.user, chatEntry)
                                       stored == ~fail2 /\ allowed
                                   IN /\ ai_chat_history' = IF stored
                                                            THEN ai_chat_history \o rows
                                                            ELSE ai_chat_history
                                      /\ last' = [Reply(called,
                                                        Append(ev2, "insert:ai_chat_history"),
                                                        successResponse(""))
                                                  EXCEPT !.aiResponse = {ai.text},
                                                         !.session_id = session_id,
                                                         !.storeFailed = ~stored,
                                                         !.inserted = IF stored THEN 2 ELSE 0]

\* The chat route of the backend rules: the client is fetched in the route
\* with the ownership filter, the answer comes from generateFinancialInsight
\* and nothing is written.
AIChatPOST_v1 ==
    /\ Idle
    /\ ClientUnchanged
    /\ \E auth \in AuthOutcomes, message \in Messages, clientId \in ChatClientIds :
        LET bodyValid == message # "" /\ clientId # NoId
            req == [Request("POST /api/ai/chat (v1)", auth, clientId, bodyValid)
                    EXCEPT !.message = message]
            ev0 == <<"auth.getUser">>
        IN
        /\ StoreUnchanged
        /\ IF Unauthorized(auth)
           THEN last' = Reply(req, ev0, unauthorizedResponse)
           ELSE IF ~bodyValid
           THEN last' = Reply(req, ev0,
                              errorResponse("Message and client ID are required",
                                            400, <<>>))
           ELSE \E fail1 \in BOOLEAN :
                LET client == IF fail1 THEN {}
                              ELSE single({c \in VisibleClients(auth.user) :
                                              c.id = clientId /\ c.advisor_id = auth.user})
                    context == {[client |-> [id |-> c.id, name |-> c.name],
                                 portfolio |-> [total_assets |-> 0,
                                                total_liabilities |-> 0,
                                                net_worth |-> 0],
                                 assets |-> {a \in VisibleAssets(auth.user) :
                                                a.client_id = c.id}] : c \in client}
                    ev1 == Append(ev0, "select:clients")
                IN IF client = {}
                   THEN last' = [Reply(req, ev1,
                                       errorResponse("Client not found", 404, <<>>))
                                 EXCEPT !.storeFailed = fail1]
                   ELSE \E outcome \in FreeFormOutcomes :
                        LET ai == generateFinancialInsight(outcome)
                            ev2 == Append(ev1, "model")
                            called == [req EXCEPT !.modelCtx = context,
                                                  !.modelOutcome = outcome]
                        IN IF ai.thrown
                           THEN last' = [Reply(called, ev2,
                                               errorResponse(
                                                   "Failed to process AI request",
                                                   500, <<>>))
                                         EXCEPT !.caught = "Failed to generate AI response"]
                           ELSE last' = [Reply(called, ev2, successResponse(""))
                                         EXCEPT !.aiResponse = {ai.text}]
\* ---------------------------------------- app/api/ai/analyze/route.ts
\* analysisType defaults to 'full'; 'rebalancing' goes to suggestRebalancing,
\* every other value to analyzePortfolio.
AnalysisTypes == {"full", "portfolio", "rebalancing"}

AIAnalyzePOST ==
    /\ Idle
    /\ ClientUnchanged
    /\ \E auth \in AuthOutcomes, clientId \in ChatClientIds, analysisType \in AnalysisTypes :
        LET bodyValid == clientId # NoId
            req == [Request("POST /api/ai/analyze", auth, clientId, bodyValid)
                    EXCEPT !.message = analysisType]
            ev0 == <<"auth.getUser">>
        IN
        /\ StoreUnchanged
        /\ IF Unauthorized(auth)
           THEN last' = Reply(req, ev0, unauthorizedResponse)
           ELSE IF ~bodyValid
           THEN last' = Reply(req, ev0, errorResponse("Client ID is required", 400, <<>>))
           ELSE \E fail1 \in BOOLEAN :
                LET context == buildClientContext(clientId, auth.user, fail1)
                    ev1 == Append(ev0, "select:clients")
                IN IF context = {}
                   THEN last' = [Reply(req, ev1,
                                       errorResponse("Failed to analyze portfolio",
                                                     500, <<>>))
                                 EXCEPT !.storeFailed = fail1,
                                        !.caught = "Client not found"]
                   ELSE \E outcome \in StructuredOutcomes :
                        LET results == IF analysisType = "rebalancing"
                                       THEN suggestRebalancing(outcome)
                                       ELSE analyzePortfolio(outcome)
                            ev2 == Append(ev1, "model")
                            called == [req EXCEPT !.ctx = context, !.modelCtx = context,
                                                  !.modelOutcome = outcome]
                        IN IF results.thrown
                           THEN last' = [Reply(called, ev2,
                                               errorResponse("Failed to analyze portfolio",
                                                             500, <<>>))
                                         EXCEPT !.caught =
                                                "Failed to generate structured response"]
                           ELSE last' = [Reply(called, ev2, successResponse(""))
                                         EXCEPT !.analysis = results.value]

\* --------------------------------------- app/api/ai/scenarios/route.ts
AIScenariosPOST ==
    /\ Idle
    /\ ClientUnchanged
    /\ \E auth \in AuthOutcomes, clientId \in ChatClientIds, scenario \in BOOLEAN :
        LET bodyValid == clientId # NoId /\ scenario
            req == Request("POST /api/ai/scenarios", auth, clientId, bodyValid)
            ev0 == <<"auth.getUser">>
        IN
        /\ StoreUnchanged
        /\ IF Unauthorized(auth)
           THEN last' = Reply(req, ev0, unauthorizedResponse)
           ELSE IF ~bodyValid
           THEN last' = Reply(req, ev0,
                              errorResponse("Client ID and scenario are required",
                                            400, <<>>))
           ELSE \E fail1 \in BOOLEAN :
                LET context == buildClientContext(clientId, auth.user, fail1)
                    ev1 == Append(ev0, "select:clients")
                IN IF context = {}
                   THEN last' = [Reply(req, ev1,
                                       errorResponse("Failed to plan scenario", 500, <<>>))
                                 EXCEPT !.storeFailed = fail1,
                                        !.caught = "Client not found"]
                   ELSE \E outcome \in StructuredOutcomes :
                        LET result == planScenario(outcome)
                            ev2 == Append(ev1, "model")
                            called == [req EXCEPT !.ctx = context, !.modelCtx = context,
                                                  !.modelOutcome = outcome]
                        IN IF result.thrown
                           THEN last' = [Reply(called, ev2,
                                               errorResponse("Failed to plan scenario",
                                                             500, <<>>))
                                         EXCEPT !.caught =
                                                "Failed to generate structured response"]
                           ELSE last' = [Reply(called, ev2, successResponse(""))
                                         EXCEPT !.analysis = result.value]

\* ------------------------------------------------------------------ numbers
\* JavaScript numbers and SQL DECIMALs are modelled as exact decimal
\* fractions: [neg, mant, scale] is (neg ? -1 : 1) * mant / 10^scale.  The
\* mantissa is a natural number of any size, written as the sequence of its
\* base-10000 digits, lowest first, without a highest digit 0 (so 0 is <<>>).
\* A decimal is kept in lowest scale, so equal numbers are equal records.
\* Floating-point rounding is not modelled.
RECURSIVE NatOf(_)
NatOf(n) == IF n = 0 THEN <<>> ELSE <<n % 10000>> \o NatOf(n \div 10000)

NatRest(a) == IF a = <<>> THEN <<>> ELSE Tail(a)

NatLow(a) == IF a = <<>> THEN 0 ELSE Head(a)

RECURSIVE NatAddC(_, _, _)
NatAddC(a, b, carry) ==
    IF a = <<>> /\ b = <<>>
    THEN NatOf(carry)
    ELSE LET x == NatLow(a) + NatLow(b) + carry
         IN <<x % 10000>> \o NatAddC(NatRest(a), NatRest(b), x \div 10000)

NatAdd(a, b) == NatAddC(a, b, 0)

RECURSIVE NatTrim(_)
NatTrim(a) ==
    IF a = <<>> THEN <<>>
    ELSE IF a[Len(a)] = 0 THEN NatTrim(SubSeq(a, 1, Len(a) - 1))
    ELSE a

\* -1, 0 or 1 as a < b, a = b or a > b
RECURSIVE NatCmp(_, _)
NatCmp(a, b) ==
    IF Len(a) # Len(b) THEN (IF Len(a) < Len(b) THEN -1 ELSE 1)
    ELSE IF a = <<>> THEN 0
    ELSE IF a[Len(a)] # b[Len(b)] THEN (IF a[Len(a)] < b[Len(b)] THEN -1 ELSE 1)
    ELSE NatCmp(SubSeq(a, 1, Len(a) - 1), SubSeq(b, 1, Len(b) - 1))

\* a - b for a >= b
RECURSIVE NatSubB(_, _, _)
NatSubB(a, b, borrow) ==
    IF a = <<>> THEN <<>>
    ELSE LET x == NatLow(a) - NatLow(b) - borrow
         IN <<(x + 10000) % 10000>>
            \o NatSubB(NatRest(a), NatRest(b), IF x < 0 THEN 1 ELSE 0)

NatSub(a, b) == NatTrim(NatSubB(a, b, 0))

\* a * k for a single digit k (0 <= k < 10000)
RECURSIVE NatMulDigit(_, _, _)
NatMulDigit(a, k, carry) ==
    IF a = <<>> THEN NatOf(carry)
    ELSE LET x == Head(a) * k + carry
         IN <<x % 10000>> \o NatMulDigit(Tail(a), k, x \div 10000)

NatShift(a) == IF a = <<>> THEN <<>> ELSE <<0>> \o a

RECURSIVE NatMul(_, _)
NatMul(a, b) ==
    IF a = <<>> \/ b = <<>> THEN <<>>
    ELSE NatAdd(NatTrim(NatMulDigit(a, Head(b), 0)), NatShift(NatMul(a, Tail(b))))

\* quotient and remainder of a by 10
RECURSIVE NatDivTen(_)
NatDivTen(a) ==
    IF a = <<>> THEN [q |-> <<>>, r |-> 0]
    ELSE LET hi == NatDivTen(Tail(a))
             cur == hi.r * 10000 + Head(a)
         IN [q |-> NatTrim(<<cur \div 10>> \o hi.q), r |-> cur % 10]

RECURSIVE NatTimesTenTo(_, _)
NatTimesTenTo(a, k) ==
    IF k = 0 THEN a ELSE NatTimesTenTo(NatTrim(NatMulDigit(a, 10, 0)), k - 1)

RECURSIVE DecNorm(_)
DecNorm(d) ==
    IF d.mant = <<>> THEN [neg |-> FALSE, mant |-> <<>>, scale |-> 0]
    ELSE IF d.scale > 0 /\ NatDivTen(d.mant).r = 0
    THEN DecNorm([d EXCEPT !.mant = NatDivTen(d.mant).q, !.scale = d.scale - 1])
    ELSE d

\* the number n / 10^scale for an integer n
Dec(n, scale) ==
    DecNorm([neg |-> n < 0, mant |-> NatOf(IF n < 0 THEN -n ELSE n), scale |-> scale])

DecInt(n) == Dec(n, 0)

DecNeg(a) == DecNorm([a EXCEPT !.neg = ~a.neg])

DecAdd(a, b) ==
    LET s == IF a.scale > b.scale THEN a.scale ELSE b.scale
        x == NatTimesTenTo(a.mant, s - a.scale)
        y == NatTimesTenTo(b.mant, s - b.scale)
    IN IF a.neg = b.neg
       THEN DecNorm([neg |-> a.neg, mant |-> NatAdd(x, y), scale |-> s])
       ELSE IF NatCmp(x, y) >= 0
       THEN DecNorm([neg |-> a.neg, mant |-> NatSub(x, y), scale |-> s])
       ELSE DecNorm([neg |-> b.neg, mant |-> NatSub(y, x), scale |-> s])

DecSub(a, b) == DecAdd(a, DecNeg(b))

DecMul(a, b) ==
    DecNorm([neg |-> a.neg # b.neg, mant |-> NatMul(a.mant, b.mant),
             scale |-> a.scale + b.scale])

\* a / 10^k
DecShift(a, k) == DecNorm([a EXCEPT !.scale = a.scale + k])

\* Math.pow(a, n) and POWER(a, n) for a natural number n
RECURSIVE DecPow(_, _)
DecPow(a, n) == IF n = 0 THEN DecInt(1) ELSE DecMul(a, DecPow(a, n - 1))

DecNegative(a) == a.neg

DecPositive(a) == ~a.neg /\ a.mant # <<>>

DecLess(a, b) == DecNegative(DecSub(a, b))

DecLeq(a, b) == ~DecPositive(DecSub(a, b))

\* a / b (b # 0) as the pair of its numerator and denominator; two quotients
\* are the same number when they cross-multiply to the same product
Quotient(a, b) == [num |-> a, den |-> b]

SameQuotient(x, y) == DecMul(x.num, y.den) = DecMul(y.num, x.den)

\* a natural number below 10000 given as a decimal
DecToNat(d) == NatLow(d.mant)

Zero == DecInt(0)

One == DecInt(1)

\* ----------------------------------------------------------- lib/utils.ts
\* calculateFutureValue(presentValue, rate, years): the rate is a fraction.
\* Math.pow is modelled for exponents that are natural numbers.
calculateFutureValue_Percent(presentValue, rate, years) ==
    DecMul(presentValue, DecPow(DecAdd(One, DecShift(rate, 2)), DecToNat(years)))

calculateFutureValue(presentValue, rate, years) ==
    DecMul(presentValue, DecPow(DecAdd(One, rate), DecToNat(years)))

\* ------------------------------------------------ lib/utils/calculations.ts
\* calculateFutureValue(currentValue, growthRate, years) of calculations.ts:
\* the growth rate is a percentage.
calculations_calculateFutureValue(currentValue, growthRate, years) ==
    DecMul(currentValue,
           DecPow(DecAdd(One, DecShift(growthRate, 2)), DecToNat(years)))

\* assets.reduce((sum, asset) => sum + asset.current_value, 0)
RECURSIVE reduceCurrentValue(_)
reduceCurrentValue(list) ==
    IF list = <<>> THEN Zero
    ELSE DecAdd(reduceCurrentValue(SubSeq(list, 1, Len(list) - 1)),
                list[Len(list)].current_value)

\* rows.reduce((sum, row) => sum + amount(row), 0), given the amounts
RECURSIVE reduceAmounts(_)
reduceAmounts(amounts) ==
    IF amounts = <<>> THEN Zero
    ELSE DecAdd(reduceAmounts(SubSeq(amounts, 1, Len(amounts) - 1)),
                amounts[Len(amounts)])

\* assets.reduce((sum, asset) => sum + calculateFutureValue(...), 0)
RECURSIVE reduceFutureValue(_)
reduceFutureValue(list) ==
    IF list = <<>> THEN Zero
    ELSE DecAdd(reduceFutureValue(SubSeq(list, 1, Len(list) - 1)),
                calculations_calculateFutureValue(list[Len(list)].current_value,
                                                  list[Len(list)].growth_rate,
                                                  list[Len(list)].projection_years))

\* x ** (1 / 10) for a quotient x: the number of RootGrid whose tenth power
\* is x.  The result is a set: empty when the root is none of the grid's
\* numbers (a number the model does not write down).
RootGrid == {Zero, Dec(5, 1), One, Dec(15, 1), DecInt(2)}

TenthRoot(x) == {g \in RootGrid : DecMul(DecPow(g, 10), x.den) = x.num}

\* calculatePortfolioTotals(assets).  overallGrowthRate is a set holding the
\* number (see TenthRoot); divisors are the divisors of the divisions the
\* call evaluated.
calculatePortfolioTotals_Blended(list) ==
    LET totalCurrentValue == reduceCurrentValue(list)
        totalFutureValue ==
            IF list = <<>> THEN Zero
            ELSE calculations_calculateFutureValue(totalCurrentValue,
                                                   list[1].growth_rate,
                                                   list[1].projection_years)
    IN [totalCurrentValue |-> totalCurrentValue,
        totalFutureValue |-> totalFutureValue,
        totalProjectedGrowth |-> DecSub(totalFutureValue, totalCurrentValue),
        overallGrowthRate |-> {Zero},
        divisors |-> {}]

calculatePortfolioTotals_Unguarded(list) ==
    LET totalCurrentValue == reduceCurrentValue(list)
        totalFutureValue == reduceFutureValue(list)
    IN [totalCurrentValue |-> totalCurrentValue,
        totalFutureValue |-> totalFutureValue,
        totalProjectedGrowth |-> DecSub(totalFutureValue, totalCurrentValue),
        overallGrowthRate |->
            {DecMul(DecSub(g, One), DecInt(100)) :
                g \in TenthRoot(Quotient(totalFutureValue, totalCurrentValue))},
        divisors |-> {totalCurrentValue, DecInt(10)}]

calculatePortfolioTotals(list) ==
    LET totalCurrentValue == reduceCurrentValue(list)
        totalFutureValue == reduceFutureValue(list)
    IN [totalCurrentValue |-> totalCurrentValue,
        totalFutureValue |-> totalFutureValue,
        totalProjectedGrowth |-> DecSub(totalFutureValue, totalCurrentValue),
        overallGrowthRate |->
            IF DecPositive(totalCurrentValue)
            THEN {DecMul(DecSub(g, One), DecInt(100)) :
                     g \in TenthRoot(Quotient(totalFutureValue, totalCurrentValue))}
            ELSE {Zero},
        divisors |->
            IF DecPositive(totalCurrentValue)
            THEN {totalCurrentValue, DecInt(10)} ELSE {}]

\* ------------------------------------ database: calculate_portfolio_totals
\* COALESCE(SUM(expr), 0), given the value of expr for each row: SUM of no
\* row is NULL, which COALESCE turns into 0
RECURSIVE SUM(_)
SUM(values) ==
    IF values = <<>> THEN Zero ELSE DecAdd(Head(values), SUM(Tail(values)))

\* calculate_portfolio_totals(client_uuid), given the client's asset rows and
\* the current_balance of each of the client's liability rows
calculate_portfolio_totals(assetRows, liabilityRows) ==
    LET current_assets ==
            SUM([i \in DOMAIN assetRows |-> assetRows[i].current_value])
        future_assets ==
            SUM([i \in DOMAIN assetRows |->
                    DecMul(assetRows[i].current_value,
                           DecPow(DecAdd(One, DecShift(assetRows[i].growth_rate, 2)),
                                  DecToNat(assetRows[i].projection_years)))])
        current_liabilities == SUM(liabilityRows)
    IN [total_assets |-> current_assets,
        total_liabilities |-> current_liabilities,
        net_worth |-> DecSub(current_assets, current_liabilities),
        projected_assets |-> future_assets,
        projected_growth |-> DecSub(future_assets, current_assets)]

\* ------------------------------------------- lib/ai/context.ts (portfolio)
\* Property names every object literal inherits from Object.prototype.
ObjectPrototype == {"constructor"}

\* object[key] of an object literal with the properties of `own`: the set
\* holding the value, and undefined is the empty set.  The value of an
\* inherited property is a function.
Lookup(own, key) ==
    IF key \in DOMAIN own THEN {own[key]}
    ELSE IF key \in ObjectPrototype THEN {"function"}
    ELSE {}

riskMap ==
    [residence |-> "medium", rrsp |-> "medium", tfsa |-> "medium",
     savings |-> "low", investment |-> "high"]

\* getCategoryRiskLevel: riskMap[category] || 'medium'
getCategoryRiskLevel_Low(category) ==
    LET found == Lookup(riskMap, category)
    IN IF found # {} THEN CHOOSE level \in found : TRUE ELSE "low"

getCategoryRiskLevel(category) ==
    LET found == Lookup(riskMap, category)
    IN IF found # {} THEN CHOOSE level \in found : TRUE ELSE "medium"

\* the reduce of calculateAssetAllocation: keys are the own properties of acc
\* in the order they were added, data their values.  When acc[category] is
\* an inherited property, `!acc[category]` is false and the two += write to
\* the inherited object: acc gets no property of its own.
RECURSIVE allocationReduce(_)
allocationReduce(list) ==
    IF list = <<>> THEN [keys |-> <<>>, data |-> <<>>]
    ELSE LET acc == allocationReduce(SubSeq(list, 1, Len(list) - 1))
             asset == list[Len(list)]
             category == asset.asset_type
         IN IF category \in DOMAIN acc.data
            THEN [acc EXCEPT !.data[category] =
                     [value |-> DecAdd(@.value, asset.current_value),
                      count |-> @.count + 1]]
            ELSE IF Lookup(acc.data, category) # {}
            THEN acc
            ELSE [keys |-> Append(acc.keys, category),
                  data |-> (category :> [value |-> DecAdd(Zero, asset.current_value),
                                         count |-> 1]) @@ acc.data]

\* calculateAssetAllocation(assets): Object.entries(allocation).map(...);
\* percentage is a quotient
calculateAssetAllocation(list) ==
    LET totalValue == reduceCurrentValue(list)
        allocation == allocationReduce(list)
    IN [i \in 1..Len(allocation.keys) |->
           LET category == allocation.keys[i]
               data == allocation.data[category]
           IN [category |-> category,
               value |-> data.value,
               percentage |->
                   IF DecPositive(totalValue)
                   THEN Quotient(DecMul(data.value, DecInt(100)), totalValue)
                   ELSE Quotient(Zero, One),
               risk_level |-> getCategoryRiskLevel(category)]]

\* ------------------------------------------------ lib/ai/context.ts (age)
\* A calendar date is [year, month, day].
IsLeap(year) == year % 4 = 0 /\ (year % 100 # 0 \/ year % 400 = 0)

DaysInMonth(year, month) ==
    CASE month = 2 -> IF IsLeap(year) THEN 29 ELSE 28
      [] month \in {4, 6, 9, 11} -> 30
      [] OTHER -> 31

PreviousDay(date) ==
    IF date.day > 1 THEN [date EXCEPT !.day = @ - 1]
    ELSE IF date.month > 1
    THEN [year |-> date.year, month |-> date.month - 1,
          day |-> DaysInMonth(date.year, date.month - 1)]
    ELSE [year |-> date.year - 1, month |-> 12, day |-> 31]

\* new Date('YYYY-MM-DD') is midnight UTC of that day; getFullYear, getMonth
\* and getDate read it in the local time zone, zone hours ahead of UTC
\* (-12 < zone < 14): the day before when the zone is behind UTC
LocalFields(date, zone) == IF zone < 0 THEN PreviousDay(date) ELSE date

\* calculateAge(birthDate), run when the local date is today in time zone zone
calculateAge(birthDate, today, zone) ==
    LET birth == LocalFields(birthDate, zone)
        age == today.year - birth.year
        monthDiff == today.month - birth.month
    IN IF monthDiff < 0 \/ (monthDiff = 0 /\ today.day < birth.day)
       THEN age - 1 ELSE age

\* --------------------------------------------- lib/ai/context.ts (context)
\* a nullable column holds the set of its value: NULL is the empty set
OrZero(column) == IF column = {} THEN Zero ELSE CHOOSE x \in column : TRUE

\* the object buildClientContext returns for the client row it fetched, with
\* its assets, income_sources and expenses embedded
ClientContext(client, today, zone) ==
    LET portfolioTotals == calculatePortfolioTotals(client.assets)
        monthlyIncome ==
            reduceAmounts([i \in DOMAIN client.income_sources |->
                              OrZero(client.income_sources[i].monthly_amount)])
        monthlyExpenses ==
            reduceAmounts([i \in DOMAIN client.expenses |->
                              client.expenses[i].monthly_amount])
    IN [client |->
            [age |-> {calculateAge(d, today, zone) : d \in client.date_of_birth}],
        portfolio |->
            [total_assets |-> portfolioTotals.totalCurrentValue,
             total_liabilities |-> Zero,
             net_worth |-> portfolioTotals.totalCurrentValue,
             asset_allocation |-> calculateAssetAllocation(client.assets),
             monthly_cash_flow |-> DecSub(monthlyIncome, monthlyExpenses)],
        assets |-> client.assets]

\* -------------------------------- database: calculate_monthly_cash_flow
\* calculate_monthly_cash_flow(client_uuid), given the client's rows of
\* income_sources and expenses; SUM skips a NULL monthly_amount
calculate_monthly_cash_flow(incomeRows, expenseRows) ==
    LET total_income ==
            SUM([i \in DOMAIN incomeRows |->
                    IF incomeRows[i].is_active
                    THEN OrZero(incomeRows[i].monthly_amount) ELSE Zero])
        total_expenses ==
            SUM([i \in DOMAIN expenseRows |-> expenseRows[i].monthly_amount])
    IN [monthly_income |-> total_income,
        monthly_expenses |-> total_expenses,
        monthly_surplus |-> DecSub(total_income, total_expenses)]

\* ------------------------------------------ database: asset_allocation view
\* ROUND(value / total * 100, 2) for natural numbers value and total below
\* 10000, total # 0: the nearest number with two decimals, halves upwards
ROUND(value, total) ==
    Dec((2 * 10000 * DecToNat(value) + DecToNat(total)) \div (2 * DecToNat(total)), 2)

\* the asset_category values of the rows, each once, in the order of rows
RECURSIVE groupBy(_)
groupBy(rows) ==
    IF rows = <<>> THEN <<>>
    ELSE LET groups == groupBy(SubSeq(rows, 1, Len(rows) - 1))
             category == rows[Len(rows)].asset_category
         IN IF \E i \in DOMAIN groups : groups[i] = category THEN groups
            ELSE Append(groups, category)

\* the rows of the asset_allocation view for one client_id, given the
\* client's rows of assets (current_value a natural number).  The division
\* by SUM(SUM(current_value)) OVER (PARTITION BY client_id) raises
\* division_by_zero when that sum is 0: the query fails and has no rows.
asset_allocation(rows) ==
    LET groups == groupBy(rows)
        total == SUM([i \in DOMAIN rows |-> rows[i].current_value])
        total_value(category) ==
            SUM([i \in DOMAIN rows |->
                    IF rows[i].asset_category = category
                    THEN rows[i].current_value ELSE Zero])
        asset_count(category) ==
            Cardinality({i \in DOMAIN rows : rows[i].asset_category = category})
    IN IF rows # <<>> /\ total = Zero
       THEN [error |-> "division_by_zero", rows |-> <<>>]
       ELSE [error |-> "",
             rows |-> [g \in DOMAIN groups |->
                          [asset_category |-> groups[g],
                           asset_count |-> asset_count(groups[g]),
                           total_value |-> total_value(groups[g]),
                           percentage |-> ROUND(total_value(groups[g]), total)]]]

\* ------------------------------------------- app/dashboard/page.tsx (data)
MaxCards == 2     \* the page shows the first MaxCards of initialAssets

initialAssets ==
    <<[id |-> "1", name |-> "Primary Residence", type |-> "residence",
       currentValue |-> DecInt(750000), futureValue |-> DecInt(900000),
       growthRate |-> Dec(3, 2), projectionYears |-> DecInt(5)],
      [id |-> "2", name |-> "RRSP Portfolio", type |-> "rrsp",
       currentValue |-> DecInt(125000), futureValue |-> DecInt(180000),
       growthRate |-> Dec(7, 2), projectionYears |-> DecInt(5)],
      [id |-> "3", name |-> "TFSA Investments", type |-> "tfsa",
       currentValue |-> DecInt(45000), futureValue |-> DecInt(65000),
       growthRate |-> Dec(6, 2), projectionYears |-> DecInt(5)],
      [id |-> "4", name |-> "Emergency Fund", type |-> "savings",
       currentValue |-> DecInt(25000), futureValue |-> DecInt(28000),
       growthRate |-> Dec(25, 3), projectionYears |-> DecInt(5)]>>

Cards == 1..(IF MaxCards < Len(initialAssets) THEN MaxCards ELSE Len(initialAssets))

\* ------------------------------------------ strings holding a typed number
\* The text of an <input type="number">: the numeral of a number, or text
\* that is no numeral (the empty string).
Text(number) == [numeric |-> TRUE, value |-> number]

EmptyText == [numeric |-> FALSE, value |-> Zero]

\* Number.prototype.toString
toString(number) == Text(number)

\* parseFloat: the number a numeral stands for, NaN otherwise; the result is
\* the set holding the number, and NaN is the empty set
parseFloat(text) == IF text.numeric THEN {text.value} ELSE {}

isNaN(numValue) == numValue = {}

Fields == {"currentValue", "growthRate", "projectionYears"}

\* what the user may type into the input of a field: nothing or a number
\* for the current value and the growth rate, nothing for the years
Typed(field) ==
    CASE field = "currentValue" -> {EmptyText, Text(Zero), Text(DecInt(-5))}
      [] field = "growthRate" -> {EmptyText, Text(DecInt(5))}
      [] field = "projectionYears" -> {EmptyText}

\* ------------------------------------------------------------ the system
\* Before any request: the tables are empty and no id has been handed out.
ServerInit ==
    /\ clients = {}
    /\ assets = {}
    /\ ai_chat_history = <<>>
    /\ last = NoRequest

\* The dashboard page is mounted: useState(initialAssets) of the page,
\* useState(null) and useState('') of each card
PageInit ==
    /\ pageAssets = [i \in Cards |-> initialAssets[i]]
    /\ isEditing = [i \in Cards |-> "null"]
    /\ tempValue = [i \in Cards |-> EmptyText]
    /\ pressed = ""

\* no page is mounted
NoPage ==
    /\ pageAssets = <<>>
    /\ isEditing = <<>>
    /\ tempValue = <<>>
    /\ pressed = ""

Call(fn, presentValue, rate, years, list, liabilities) ==
    [fn |-> fn, presentValue |-> presentValue, rate |-> rate, years |-> years,
     list |-> list, liabilities |-> liabilities, done |-> FALSE,
     value |-> {}, totals |-> {}]

NoCall == Call("none", Zero, Zero, Zero, <<>>, <<>>)

\* the API: the route handlers answering requests
Init ==
    /\ ServerInit
    /\ NoPage
    /\ calc = NoCall

\* The response has gone out: the request's scope ends.
ResponseSent ==
    /\ ~Idle
    /\ last' = NoRequest
    /\ StoreUnchanged
    /\ ClientUnchanged

Next ==
    \/ ClientsGET
    \/ ClientsPOST
    \/ ClientGET
    \/ ClientGET_RLS
    \/ ClientPUT
    \/ ClientDELETE
    \/ AssetsGET
    \/ AssetsPOST
    \/ AIChatPOST
    \/ AIChatPOST_v1
    \/ AIAnalyzePOST
    \/ AIScenariosPOST
    \/ ResponseSent

Spec == Init /\ [][Next]_vars

\* -------------------------------------------------- app/dashboard/page.tsx
\* setAssets(prev => prev.map(asset =>
\*     asset.id === assetId ? { ...asset, ...updates } : asset))
handleAssetUpdate_Every(prev, assetId, updates) ==
    [i \in DOMAIN prev |-> updates @@ prev[i]]

handleAssetUpdate(prev, assetId, updates) ==
    [i \in DOMAIN prev |->
        IF prev[i].id = assetId THEN updates @@ prev[i] ELSE prev[i]]

\* array.reduce((sum, x) => sum + x, 0) over the numbers of a list
reduce_Last(values) ==
    IF values = <<>> THEN Zero ELSE values[Len(values)]

RECURSIVE reduce(_)
reduce(values) ==
    IF values = <<>> THEN Zero
    ELSE DecAdd(reduce(SubSeq(values, 1, Len(values) - 1)), values[Len(values)])

\* "Calculate totals": what a render of the page computes from its assets
totalCurrent == reduce([i \in DOMAIN pageAssets |-> pageAssets[i].currentValue])

totalFuture == reduce([i \in DOMAIN pageAssets |-> pageAssets[i].futureValue])

totalGrowth_FutureOnly == totalFuture

totalGrowth == DecSub(totalFuture, totalCurrent)

\* growthRate: value is the number, as a quotient; divisors are the divisors
\* of the divisions evaluated
growthRate_Unguarded ==
    [value |-> Quotient(DecSub(totalFuture, totalCurrent), totalCurrent),
     divisors |-> {totalCurrent}]

growthRate ==
    IF DecPositive(totalCurrent)
    THEN [value |-> Quotient(DecSub(totalFuture, totalCurrent), totalCurrent),
          divisors |-> {totalCurrent}]
    ELSE [value |-> Quotient(Zero, One), divisors |-> {}]

\* a route handler runs on the server, the page and the calculations do not
ServerUnchanged == UNCHANGED <<clients, assets, ai_chat_history, last>>

\* --------------------------------------- app/components/ui/AssetCard.tsx
\* no input of the page has the focus
NoFocus == \A i \in Cards : isEditing[i] = "null"

\* the number shown for a field when its edit button is clicked
Shown(asset, field) ==
    CASE field = "currentValue" -> asset.currentValue
      [] field = "growthRate" -> DecMul(asset.growthRate, DecInt(100))
      [] field = "projectionYears" -> asset.projectionYears

\* click on the edit button of a field of card i.  The click takes the focus,
\* so it follows the blur of any input that had it.
handleEdit ==
    /\ NoFocus
    /\ \E i \in Cards, field \in Fields :
        /\ isEditing' = [isEditing EXCEPT ![i] = field]
        /\ tempValue' = [tempValue EXCEPT ![i] = toString(Shown(pageAssets[i], field))]
    /\ pressed' = ""
    /\ UNCHANGED <<pageAssets, calc>>
    /\ ServerUnchanged

\* onChange={(e) => setTempValue(e.target.value)}
onChange ==
    /\ \E i \in Cards :
        /\ isEditing[i] # "null"
        /\ \E text \in Typed(isEditing[i]) :
              tempValue' = [tempValue EXCEPT ![i] = text]
    /\ pressed' = ""
    /\ UNCHANGED <<pageAssets, isEditing, calc>>
    /\ ServerUnchanged

\* the updates handleSave(field) of the card of asset passes to onUpdate for
\* the parsed number numValue
Updates_RateAsTyped(asset, field, numValue) ==
    CASE field = "currentValue" ->
            [currentValue |-> numValue,
             futureValue |-> calculateFutureValue(numValue, asset.growthRate,
                                                  asset.projectionYears)]
      [] field = "growthRate" ->
            [growthRate |-> numValue,
             futureValue |-> calculateFutureValue(asset.currentValue, numValue,
                                                  asset.projectionYears)]
      [] field = "projectionYears" ->
            [projectionYears |-> numValue,
             futureValue |-> calculateFutureValue(asset.currentValue,
                                                  asset.growthRate, numValue)]

Updates_FieldOnly(asset, field, numValue) ==
    CASE field = "currentValue" -> [currentValue |-> numValue]
      [] field = "growthRate" -> [growthRate |-> DecShift(numValue, 2)]
      [] field = "projectionYears" -> [projectionYears |-> numValue]

Updates(asset, field, numValue) ==
    CASE field = "currentValue" ->
            [currentValue |-> numValue,
             futureValue |-> calculateFutureValue(numValue, asset.growthRate,
                                                  asset.projectionYears)]
      [] field = "growthRate" ->
            LET rate == DecShift(numValue, 2)
            IN [growthRate |-> rate,
                futureValue |-> calculateFutureValue(asset.currentValue, rate,
                                                     asset.projectionYears)]
      [] field = "projectionYears" ->
            [projectionYears |-> numValue,
             futureValue |-> calculateFutureValue(asset.currentValue,
                                                  asset.growthRate, numValue)]

\* the assets state after handleSave(field) of the card of asset has run on
\* the state prev, the card's input holding text
Saved(prev, asset, field, text) ==
    LET numValue == parseFloat(text)
    IN IF ~isNaN(numValue)
       THEN handleAssetUpdate(prev, asset.id,
                              Updates(asset, field, CHOOSE n \in numValue : TRUE))
       ELSE prev

handleSave(i, field) ==
    /\ pageAssets' = Saved(pageAssets, pageAssets[i], field, tempValue[i])
    /\ isEditing' = [isEditing EXCEPT ![i] = "null"]
    /\ UNCHANGED tempValue

\* onBlur={() => handleSave(field)} of the input of the field being edited
onBlur ==
    /\ \E i \in Cards :
        /\ isEditing[i] # "null"
        /\ handleSave(i, isEditing[i])
    /\ pressed' = ""
    /\ UNCHANGED calc
    /\ ServerUnchanged

\* handleKeyPress(e, field) of card i for e.key = key.  The save removes the
\* input that has the focus; where the browser sends it a blur for that
\* (blurFollows), handleSave runs once more, with the asset and the text of
\* the render the input belonged to.
handleKeyPress(i, field, key, blurFollows) ==
    IF key = "Enter"
    THEN /\ pageAssets' =
               IF blurFollows
               THEN Saved(Saved(pageAssets, pageAssets[i], field, tempValue[i]),
                          pageAssets[i], field, tempValue[i])
               ELSE Saved(pageAssets, pageAssets[i], field, tempValue[i])
         /\ isEditing' = [isEditing EXCEPT ![i] = "null"]
         /\ UNCHANGED tempValue
    ELSE IF key = "Escape"
    THEN /\ isEditing' = [isEditing EXCEPT ![i] = "null"]
         /\ UNCHANGED <<pageAssets, tempValue>>
    ELSE UNCHANGED <<pageAssets, isEditing, tempValue>>

\* The keys for which React calls onKeyPress: a keypress event is dispatched
\* for keys that produce a character and for Enter, never for Escape.
KeyPressKeys == {"Enter"}

\* onKeyPress={(e) => handleKeyPress(e, field)} of the input being edited
onKeyPress ==
    /\ \E i \in Cards, key \in KeyPressKeys, blurFollows \in BOOLEAN :
        /\ isEditing[i] # "null"
        /\ handleKeyPress(i, isEditing[i], key, blurFollows)
        /\ pressed' = key
    /\ UNCHANGED calc
    /\ ServerUnchanged

\* the user presses Escape in the input being edited: the input has no
\* onKeyDown or onKeyUp and no keypress is dispatched, so no handler runs
keydownEscape ==
    /\ \E i \in Cards : isEditing[i] # "null"
    /\ pressed' = "Escape"
    /\ UNCHANGED <<pageAssets, isEditing, tempValue, calc>>
    /\ ServerUnchanged

DashboardNext ==
    \/ handleEdit
    \/ onChange
    \/ onBlur
    \/ onKeyPress
    \/ keydownEscape

\* the dashboard page in a browser
DashboardInit ==
    /\ ServerInit
    /\ PageInit
    /\ calc = NoCall

DashboardSpec == DashboardInit /\ [][DashboardNext]_vars

\* --------------------------------------------- the calculations, applied
\* calc is one call of a calculation: fn names the function, presentValue,
\* rate, years, list and liabilities are its arguments, done tells whether
\* it has returned, value and totals hold what it returned.
MaxYears == 10      \* calculateFutureValue is called with 0..MaxYears years
MaxListLen == 2     \* asset lists hold up to MaxListLen assets

Amounts == {Zero, One, DecInt(750000)}

Rates == {Dec(-5, 1), Zero, Dec(3, 2), One, DecInt(3), DecInt(100)}

AssetRecords ==
    [current_value : Amounts, growth_rate : {Zero, DecInt(3), DecInt(100)},
     projection_years : {DecInt(5), DecInt(10)}]

AssetLists == UNION {[1..n -> AssetRecords] : n \in 0..MaxListLen}

LiabilityLists == {<<>>, <<DecInt(50)>>}

Calls ==
    {Call(fn, p, r, DecInt(n), <<>>, <<>>) :
        fn \in {"calculateFutureValue", "calculations.calculateFutureValue"},
        p \in Amounts, r \in Rates, n \in 0..MaxYears}
    \cup {Call("calculatePortfolioTotals", Zero, Zero, Zero, list, <<>>) :
             list \in AssetLists}
    \cup {Call("calculate_portfolio_totals", Zero, Zero, Zero, list, liabilities) :
             list \in AssetLists, liabilities \in LiabilityLists}

\* a call of a function of one argument
Call1(fn, arg) == [fn |-> fn, arg |-> arg, done |-> FALSE, value |-> {}]

\* rows of assets as calculateAssetAllocation and the asset_allocation view
\* read them; "other" is in no table of the code
AllocationAmounts == {Zero, One, DecInt(2)}

TypedAssets ==
    [asset_type : {"savings", "investment", "other", "constructor"},
     current_value : AllocationAmounts]

CategorizedAssets ==
    [asset_category : {"cash", "retirement", "other"},
     current_value : AllocationAmounts]

AllocationCalls ==
    {Call1("calculateAssetAllocation", list) :
        list \in UNION {[1..n -> TypedAssets] : n \in 0..MaxListLen}}
    \cup {Call1("asset_allocation", rows) :
             rows \in UNION {[1..n -> CategorizedAssets] : n \in 0..MaxListLen}}

\* a client as the database holds it: its rows of assets, income_sources,
\* expenses and liabilities (current_balance of each) and its date_of_birth
ContextAssets ==
    [asset_type : {"savings"}, current_value : {One, DecInt(750000)},
     growth_rate : {DecInt(3)}, projection_years : {DecInt(10)}]

IncomeRows == [monthly_amount : {{}, {DecInt(1000)}}, is_active : BOOLEAN]

ExpenseRows == [monthly_amount : {DecInt(300)}]

Rows(of) == UNION {[1..n -> of] : n \in 0..MaxListLen}

ClientData ==
    [assets : Rows(ContextAssets), income_sources : Rows(IncomeRows),
     expenses : Rows(ExpenseRows), liabilities : LiabilityLists,
     date_of_birth : {{}, {[year |-> 2000, month |-> 3, day |-> 15]}}]

\* hours the local time zone is ahead of UTC
Zones == {-5, 0, 9}

BirthDates ==
    [year : {2000}, month : {1, 3}, day : {1, 15}]
    \cup {[year |-> 2000, month |-> 2, day |-> 29]}

Todays == [year : {2000, 2023}, month : {1, 2, 3}, day : {1, 14, 15, 28}]

ContextCalls ==
    {Call1("buildClientContext",
           [client |-> client,
            today |-> [year |-> 2024, month |-> 3, day |-> 14], zone |-> zone]) :
        client \in ClientData, zone \in {-5, 0}}
    \cup {Call1("calculate_monthly_cash_flow",
                 [income_sources |-> incomes, expenses |-> expenses]) :
             incomes \in Rows(IncomeRows), expenses \in Rows(ExpenseRows)}
    \cup {Call1("calculateAge", [birthDate |-> b, today |-> t, zone |-> z]) :
             b \in BirthDates, t \in Todays, z \in Zones}

Pending(fn) == calc.fn = fn /\ ~calc.done

PageUnchanged == UNCHANGED <<pageAssets, isEditing, tempValue, pressed>>

Apply_calculateFutureValue ==
    /\ Pending("calculateFutureValue")
    /\ calc' = [calc EXCEPT !.done = TRUE,
                            !.value = {calculateFutureValue(calc.presentValue,
                                                            calc.rate, calc.years)}]
    /\ PageUnchanged /\ ServerUnchanged

Apply_calculations_calculateFutureValue ==
    /\ Pending("calculations.calculateFutureValue")
    /\ calc' = [calc EXCEPT !.done = TRUE,
                            !.value = {calculations_calculateFutureValue(
                                           calc.presentValue, calc.rate, calc.years)}]
    /\ PageUnchanged /\ ServerUnchanged

Apply_calculatePortfolioTotals ==
    /\ Pending("calculatePortfolioTotals")
    /\ calc' = [calc EXCEPT !.done = TRUE,
                            !.totals = {calculatePortfolioTotals(calc.list)}]
    /\ PageUnchanged /\ ServerUnchanged

Apply_calculate_portfolio_totals ==
    /\ Pending("calculate_portfolio_totals")
    /\ calc' = [calc EXCEPT !.done = TRUE,
                            !.totals = {calculate_portfolio_totals(calc.list,
                                                                   calc.liabilities)}]
    /\ PageUnchanged /\ ServerUnchanged

Apply_calculateAssetAllocation ==
    /\ Pending("calculateAssetAllocation")
    /\ calc' = [calc EXCEPT !.done = TRUE,
                            !.value = {calculateAssetAllocation(calc.arg)}]
    /\ PageUnchanged /\ ServerUnchanged

Apply_asset_allocation ==
    /\ Pending("asset_allocation")
    /\ calc' = [calc EXCEPT !.done = TRUE,
                            !.value = {asset_allocation(calc.arg)}]
    /\ PageUnchanged /\ ServerUnchanged

Apply_buildClientContext ==
    /\ Pending("buildClientContext")
    /\ calc' = [calc EXCEPT !.done = TRUE,
                            !.value = {ClientContext(calc.arg.client, calc.arg.today,
                                                     calc.arg.zone)}]
    /\ PageUnchanged /\ ServerUnchanged

Apply_calculate_monthly_cash_flow ==
    /\ Pending("calculate_monthly_cash_flow")
    /\ calc' = [calc EXCEPT !.done = TRUE,
                            !.value = {calculate_monthly_cash_flow(
                                           calc.arg.income_sources, calc.arg.expenses)}]
    /\ PageUnchanged /\ ServerUnchanged

Apply_calculateAge ==
    /\ Pending("calculateAge")
    /\ calc' = [calc EXCEPT !.done = TRUE,
                            !.value = {calculateAge(calc.arg.birthDate, calc.arg.today,
                                                    calc.arg.zone)}]
    /\ PageUnchanged /\ ServerUnchanged

CalcInit ==
    /\ ServerInit
    /\ NoPage
    /\ \/ calc \in Calls
       \/ calc \in AllocationCalls
       \/ calc \in ContextCalls

CalcNext ==
    \/ Apply_calculateFutureValue
    \/ Apply_calculations_calculateFutureValue
    \/ Apply_calculatePortfolioTotals
    \/ Apply_calculate_portfolio_totals
    \/ Apply_calculateAssetAllocation
    \/ Apply_asset_allocation
    \/ Apply_buildClientContext
    \/ Apply_calculate_monthly_cash_flow
    \/ Apply_calculateAge

CalcSpec == CalcInit /\ [][CalcNext]_vars

\* ================================================================ claims
AIHandlers ==
    {"POST /api/ai/chat", "POST /api/ai/chat (v1)", "POST /api/ai/analyze",
     "POST /api/ai/scenarios"}

\* the handlers that go through ContextBuilder.buildClientContext
ContextHandlers ==
    {"POST /api/ai/chat", "POST /api/ai/analyze", "POST /api/ai/scenarios"}

ChatHandlers == {"POST /api/ai/chat", "POST /api/ai/chat (v1)"}

ClientRouteHandlers ==
    {"GET /api/clients/[id]", "GET /api/clients/[id] (RLS)", "PUT /api/clients/[id]",
     "DELETE /api/clients/[id]", "GET /api/clients/[id]/assets",
     "POST /api/clients/[id]/assets"}

ValidatingHandlers ==
    {"POST /api/clients", "PUT /api/clients/[id]", "POST /api/clients/[id]/assets",
     "POST /api/ai/chat"}

StoreEvents ==
    {"select:clients", "select:assets", "insert:clients", "update:clients",
     "delete:clients", "insert:assets", "insert:ai_chat_history"}

Serving == last.handler # "none"

PrincipalPresent == ~last.authError /\ last.user \in Advisors

Issued(e) == \E i \in DOMAIN last.events : last.events[i] = e

TimesIssued(e) == Cardinality({i \in DOMAIN last.events : last.events[i] = e})

NoStoreOrModelCall ==
    \A i \in DOMAIN last.events : last.events[i] \notin StoreEvents \cup {"model"}

\* the client row the request names, when the store holds one
NamedClient == {c \in clients : c.id = last.id}

ForeignClientNamed == \E c \in NamedClient : c.advisor_id # last.user

\* the request's select on clients failed (the only other statement that can
\* fail in an AI handler is the chat history insert)
FetchFailed == last.storeFailed /\ ~Issued("insert:ai_chat_history")

OwnedBy(u, ctx) == \A c \in clients : c.id = ctx.client.id => c.advisor_id = u

\* C1: when advisor A asks chat / analyze / scenarios about a client that
\* belongs to another advisor B, the Context Builder fails with 'Client not
\* found': no context is built from that client's data, nothing of it is
\* sent to the model, and the answer is a failure.  Every context that is
\* built or sent to the model is that of a client of the requesting advisor.
C1_ForeignClientNeverInContext ==
    (last.handler \in AIHandlers /\ PrincipalPresent) =>
        /\ \A c \in last.ctx \cup last.modelCtx :
              /\ OwnedBy(last.user, c)
              /\ \A a \in c.assets : a.client_id = c.client.id
        /\ (last.bodyValid /\ ForeignClientNamed) =>
              /\ last.ctx = {}
              /\ last.modelCtx = {}
              /\ ~Issued("model")
              /\ ~last.resp.success
              /\ last.handler \in ContextHandlers => last.caught = "Client not found"

C1_Witness ==
    /\ last.handler = "POST /api/ai/chat"
    /\ PrincipalPresent
    /\ last.bodyValid
    /\ ForeignClientNamed
    /\ Issued("select:clients")
    /\ ~last.storeFailed

\* C2: in POST/PUT clients, POST clients/[id]/assets and POST ai/chat, a
\* request with an invalid body is answered with the validation error before
\* any store read, store write or model call has been issued.
C2_InvalidBodyRejectedFirst ==
    (last.handler \in ValidatingHandlers /\ PrincipalPresent /\ ~last.bodyValid) =>
        /\ last.resp.status \in {400, 422}
        /\ ~last.resp.success
        /\ NoStoreOrModelCall

\* C3: in every route handler, when the identity provider returns an error
\* or no user, the handler answers 401 with success = false and issues no
\* store read, no store write and no model call.
C3_NoPrincipalIs401 ==
    (Serving /\ (last.authError \/ last.user = NoUser)) =>
        /\ last.resp.status = 401
        /\ ~last.resp.success
        /\ last.events = <<"auth.getUser">>
        /\ last.retClients = {} /\ last.retAssets = {}
        /\ last.inserted = 0

C3_Witness ==
    /\ last.handler = "DELETE /api/clients/[id]"
    /\ ~last.authError
    /\ last.user = NoUser
    /\ NamedClient # {}

UnderlyingErrorTexts ==
    {"Failed to generate AI response", "Failed to generate structured response",
     "Client not found", "No response content"}

\* C5: when the model call of a chat request fails, the answer is the
\* generic failure (success = false, 500, 'Failed to process AI request')
\* and nothing is written; in every AI handler the text of the error that
\* was caught is not part of the response and the model is called at most
\* once per request (no retry).
C5_ModelFailureIsGenericNoRetry ==
    (last.handler \in AIHandlers) =>
        /\ TimesIssued("model") <= 1
        /\ last.caught # "" =>
              /\ ~last.resp.success
              /\ last.resp.message # last.caught
              /\ last.aiResponse = {}
        /\ (last.handler \in ChatHandlers /\ last.modelOutcome = "throws") =>
              /\ ~last.resp.success
              /\ last.resp.status = 500
              /\ last.resp.message = "Failed to process AI request"
              /\ last.resp.message \notin UnderlyingErrorTexts
              /\ last.aiResponse = {}
              /\ TimesIssued("model") = 1
              /\ last.inserted = 0

C5_Witness ==
    /\ last.handler = "POST /api/ai/chat"
    /\ last.modelOutcome = "throws"
    /\ TimesIssued("model") = 1
    /\ last.caught = "Failed to generate AI response"

\* C6: for every request to the analyze endpoint in which the model call
\* fails, the response is a failure (success = false), never a success
\* response carrying an empty or partial analysis.
C6_AnalyzeFailureIsFailure ==
    (last.handler = "POST /api/ai/analyze" /\ last.modelOutcome = "throws") =>
        /\ ~last.resp.success
        /\ last.analysis = "none"

\* C7: whenever the model returns no content (free-form path) or content
\* that is not valid JSON (structured path), the operation ends in failure,
\* and no success response or chat-history row carries an empty or
\* placeholder assistant message.
C7_EmptyOrMalformedIsFailure ==
    /\ (last.handler \in AIHandlers /\ last.modelOutcome \in {"empty", "malformed"}) =>
          /\ ~last.resp.success
          /\ last.inserted = 0
    /\ last.resp.success =>
          last.aiResponse \cap {"", "Unable to generate response"} = {}
    /\ \A i \in DOMAIN ai_chat_history :
          ai_chat_history[i].message_type = "assistant" =>
              ai_chat_history[i].message_content
                  \notin {"", "Unable to generate response"}

\* C8: in every handler, if a store statement fails the handler does not
\* return a success response, and the store holds all or none of that
\* statement's rows; a chat request whose ai_chat_history insert fails does
\* not answer success = true.
C8_StoreFailureIsNotSuccess ==
    /\ (Serving /\ last.storeFailed) => (~last.resp.success /\ last.inserted = 0)
    /\ last.handler = "POST /api/ai/chat" => last.inserted \in {0, 2}

\* the rows the chat request being answered has appended to ai_chat_history
LastPair == SubSeq(ai_chat_history, Len(ai_chat_history) - 1, Len(ai_chat_history))

\* C9: every chat request that succeeds has written exactly two history
\* rows, one 'user' and one 'assistant', after the model call, both with the
\* session id returned in the response, which is the request's sessionId
\* when one was supplied and a generated id otherwise; a chat request that
\* fails writes no history row.
C9_ChatPersistsPair ==
    (last.handler = "POST /api/ai/chat") =>
        /\ last.resp.success =>
              /\ last.inserted = 2
              /\ last.events = <<"auth.getUser", "select:clients", "model",
                                 "insert:ai_chat_history">>
              /\ Len(ai_chat_history) >= 2
              /\ LastPair[1].message_type = "user"
              /\ LastPair[1].message_content = last.message
              /\ LastPair[2].message_type = "assistant"
              /\ LastPair[2].message_content \in last.aiResponse
              /\ LastPair[1].session_id = last.session_id
              /\ LastPair[2].session_id = last.session_id
              /\ last.sessionId # NoSession => last.session_id = last.sessionId
              /\ last.sessionId = NoSession => last.session_id[1] = "uuid"
        /\ ~last.resp.success =>
              /\ last.inserted = 0
              /\ ~Issued("insert:ai_chat_history")

\* C10: a request by advisor A to GET/PUT/DELETE /api/clients/[id] or
\* GET/POST /api/clients/[id]/assets returns to A only client rows and asset
\* rows of A's own clients, and leaves every client row of another advisor,
\* and every asset row of another advisor's client, as it was.
RowsOfOthers(u, cs) == {c \in cs : c.advisor_id # u}

AssetsOfOthers(u, cs, as) ==
    {a \in as : \E c \in cs : c.id = a.client_id /\ c.advisor_id # u}

C10_RequestTouchesOwnRowsOnly ==
    (last'.handler \in ClientRouteHandlers /\ ~last'.authError /\ last'.user \in Advisors) =>
        /\ \A c \in last'.retClients : c.advisor_id = last'.user
        /\ \A a \in last'.retAssets :
              \E c \in clients : c.id = a.client_id /\ c.advisor_id = last'.user
        /\ RowsOfOthers(last'.user, clients') = RowsOfOthers(last'.user, clients)
        /\ AssetsOfOthers(last'.user, clients', assets')
               = AssetsOfOthers(last'.user, clients, assets)

C10_ClientExclusivelyOwned == [][C10_RequestTouchesOwnRowsOnly]_vars

C10_Witness ==
    /\ last.handler = "GET /api/clients/[id] (RLS)"
    /\ PrincipalPresent
    /\ ForeignClientNamed
    /\ ~last.storeFailed
    /\ \E a \in assets : a.client_id = last.id

\* ------------------------------------------------- claims C11, C12, C14
PointHandlers ==
    {"GET /api/clients/[id]", "GET /api/clients/[id] (RLS)",
     "PUT /api/clients/[id]", "DELETE /api/clients/[id]"}

\* the client rows with the id the request names that the requester owns
OwnedNamed(req, cs) == {c \in cs : c.id = req.id /\ c.advisor_id = req.user}

\* C11: a GET, PUT or DELETE of /api/clients/[id] by a signed-in advisor,
\* with a valid body, that names an id under which the advisor owns no client
\* row answers 404 with success = false and leaves the store as it was.
C11_MissingRowStep ==
    (/\ last'.handler \in PointHandlers
     /\ ~last'.authError /\ last'.user \in Advisors
     /\ last'.bodyValid
     /\ OwnedNamed(last', clients) = {}) =>
        /\ last'.resp.status = 404
        /\ ~last'.resp.success
        /\ UNCHANGED <<clients, assets, ai_chat_history>>

C11_PointOpOnMissingRowIsNotFound == [][C11_MissingRowStep]_vars

HistoryOf(id, h) == SelectSeq(h, LAMBDA r : r.client_id = id)

\* C12: a DELETE of /api/clients/[id] that answers success leaves no asset
\* row and no chat-history row with client_id = id, and leaves the asset and
\* chat-history rows of every other client as they were.
C12_DeleteStep ==
    (last'.handler = "DELETE /api/clients/[id]" /\ last'.resp.success) =>
        /\ ~\E a \in assets' : a.client_id = last'.id
        /\ HistoryOf(last'.id, ai_chat_history') = <<>>
        /\ {a \in assets' : a.client_id # last'.id}
              = {a \in assets : a.client_id # last'.id}
        /\ \A id \in ClientIds \ {last'.id} :
              HistoryOf(id, ai_chat_history') = HistoryOf(id, ai_chat_history)

C12_DeleteCascades == [][C12_DeleteStep]_vars

\* C14: a POST of /api/clients/[id]/assets by the advisor owning client id
\* inserts a row only for a body the asset schema accepts, the row carries
\* projection_years 10 when the body has none, and every other body is
\* answered 422 with a non-empty errors list and no insert.
C14_AssetInputValidated ==
    (/\ last.handler = "POST /api/clients/[id]/assets"
     /\ PrincipalPresent
     /\ ~last.storeFailed
     /\ OwnedNamed(last, clients) # {}) =>
        /\ last.inserted = 1 =>
              /\ last.bodyValid
              /\ \A a \in last.retAssets :
                    /\ a.current_value > 0
                    /\ a.growth_rate >= -100 /\ a.growth_rate <= 100
                    /\ a.projection_years >= 1 /\ a.projection_years <= 50
        /\ ~last.bodyValid =>
              /\ last.resp.status = 422
              /\ last.resp.errors # <<>>
              /\ last.inserted = 0

\* ------------------------------------------------------ claims C13 - C20
\* C13: in every state of the dashboard reached by AssetCard edits from the
\* initial assets, every asset has currentValue >= 0 and
\* projectionYears >= 1.
C13_AssetInvariant ==
    \A i \in DOMAIN pageAssets :
        /\ ~DecNegative(pageAssets[i].currentValue)
        /\ DecLeq(One, pageAssets[i].projectionYears)

\* P * (1 + r)^n by n successive multiplications
RECURSIVE Compound(_, _, _)
Compound(P, r, n) ==
    IF n = 0 THEN P ELSE DecMul(Compound(P, r, n - 1), DecAdd(One, r))

Returned(fn) == calc.fn = fn /\ calc.done

\* C15: for P >= 0, a fractional rate r > -1 and an integer n >= 0,
\* calculateFutureValue(P, r, n) is P * (1 + r)^n; it is P when r = 0 and
\* when n = 0.
C15_CompoundingEngine ==
    (/\ Returned("calculateFutureValue")
     /\ ~DecNegative(calc.presentValue)
     /\ DecLess(DecInt(-1), calc.rate)) =>
        /\ calc.value = {Compound(calc.presentValue, calc.rate, DecToNat(calc.years))}
        /\ calc.rate = Zero => calc.value = {calc.presentValue}
        /\ calc.years = Zero => calc.value = {calc.presentValue}

C15_Witness ==
    /\ Returned("calculateFutureValue")
    /\ calc.presentValue = DecInt(750000)
    /\ calc.rate = Dec(3, 2)
    /\ calc.years = DecInt(5)
    /\ calc.value = {DecAdd(DecInt(869455), Dec(555725, 6))}

\* the sum of a list of numbers, first to last
RECURSIVE Total(_)
Total(values) ==
    IF values = <<>> THEN Zero ELSE DecAdd(Head(values), Total(Tail(values)))

\* an asset compounded on its own rate (a percentage) and horizon
OwnFuture(a) ==
    Compound(a.current_value, DecShift(a.growth_rate, 2), DecToNat(a.projection_years))

\* the total of the current values compounded once, on the rate and the
\* horizon of asset k
Blended(list, k) ==
    Compound(Total([i \in DOMAIN list |-> list[i].current_value]),
             DecShift(list[k].growth_rate, 2), DecToNat(list[k].projection_years))

AggregatorGrowthIsDifference ==
    \A list \in AssetLists :
        LET t == calculatePortfolioTotals(list)
        IN /\ t.totalCurrentValue = Total([i \in DOMAIN list |-> list[i].current_value])
           /\ t.totalProjectedGrowth = DecSub(t.totalFutureValue, t.totalCurrentValue)

\* C17: totalProjectedGrowth = totalFutureValue - totalCurrentValue with
\* totalCurrentValue the sum of the current values, for every asset list
\* given to the aggregator and in every state of the dashboard.
C17_GrowthIsFutureMinusCurrent ==
    /\ AggregatorGrowthIsDifference
    /\ totalGrowth
          = DecSub(Total([i \in DOMAIN pageAssets |-> pageAssets[i].futureValue]),
                   Total([i \in DOMAIN pageAssets |-> pageAssets[i].currentValue]))

C17_Witness ==
    /\ NoFocus
    /\ \E i \in DOMAIN pageAssets : pageAssets[i].currentValue = DecInt(-5)
    /\ \E i \in DOMAIN pageAssets : pageAssets[i].growthRate = Dec(5, 2)
    /\ DecPositive(totalGrowth)

\* C18: for the empty asset list the aggregator returns 0 for
\* totalCurrentValue, totalFutureValue, totalProjectedGrowth and
\* overallGrowthRate.
C18_EmptyListIsAllZero ==
    (Returned("calculatePortfolioTotals") /\ calc.list = <<>>) =>
        /\ calc.totals # {}
        /\ \A t \in calc.totals :
              /\ t.totalCurrentValue = Zero
              /\ t.totalFutureValue = Zero
              /\ t.totalProjectedGrowth = Zero
              /\ t.overallGrowthRate = {Zero}

C18_Witness == Returned("calculatePortfolioTotals") /\ calc.list = <<>>

\* for every asset list whose current total is 0 the aggregator's rate is 0
\* and it has divided by nothing
AggregatorGuardsZeroTotal ==
    \A list \in AssetLists :
        LET t == calculatePortfolioTotals(list)
        IN t.totalCurrentValue = Zero =>
              (t.overallGrowthRate = {Zero} /\ t.divisors = {})

\* C19: when the current total is 0 the overall growth rate is 0 and no
\* division by the current total is evaluated, in the aggregator and on the
\* dashboard.
C19_ZeroTotalIsGuarded ==
    /\ AggregatorGuardsZeroTotal
    /\ Zero \notin growthRate.divisors
    /\ totalCurrent = Zero =>
          /\ growthRate.value.num = Zero
          /\ growthRate.divisors = {}

C19_Witness ==
    /\ Len(pageAssets) > 0
    /\ NoFocus
    /\ \A i \in DOMAIN pageAssets : pageAssets[i].currentValue = Zero

\* for every asset list with a positive current total, the rate g the
\* aggregator returns satisfies totalCurrentValue * (1 + g)^10 = totalFutureValue
AggregatorRateIsFractionalRoot ==
    \A list \in AssetLists :
        LET t == calculatePortfolioTotals(list)
        IN DecPositive(t.totalCurrentValue) =>
              \A g \in t.overallGrowthRate :
                  DecMul(t.totalCurrentValue, DecPow(DecAdd(One, g), 10))
                      = t.totalFutureValue

\* C20: when the current total is positive, the overall growth rate is the
\* fraction g with totalCurrentValue * (1 + g)^10 = totalFutureValue, and the
\* growth rate of the dashboard is that same g.
C20_RateIsTenYearRoot ==
    /\ AggregatorRateIsFractionalRoot
    /\ DecPositive(totalCurrent) =>
          LET g == growthRate.value
          IN DecMul(totalCurrent, DecPow(DecAdd(g.den, g.num), 10))
                = DecMul(totalFuture, DecPow(g.den, 10))

\* ------------------------------------------------------------------- C21
\* the assets of the example: value, rate (a fraction) and years
ExampleTriples ==
    <<[currentValue |-> DecInt(750000), growthRate |-> Dec(3, 2),
       projectionYears |-> DecInt(5)],
      [currentValue |-> DecInt(125000), growthRate |-> Dec(7, 2),
       projectionYears |-> DecInt(5)]>>

\* cards 1 and 2 of the page hold the assets of the example
ShowsExample ==
    /\ Len(pageAssets) >= 2
    /\ \A i \in 1..2 :
          /\ pageAssets[i].currentValue = ExampleTriples[i].currentValue
          /\ pageAssets[i].growthRate = ExampleTriples[i].growthRate
          /\ pageAssets[i].projectionYears = ExampleTriples[i].projectionYears

\* x is amount when rounded to the cent
ToTheCent(x, amount) ==
    /\ DecLeq(DecSub(amount, Dec(5, 3)), x)
    /\ DecLess(x, DecAdd(amount, Dec(5, 3)))

\* the totals over cards 1 and 2, each asset compounded by calculateFutureValue
ExampleCurrent == reduce(<<pageAssets[1].currentValue, pageAssets[2].currentValue>>)

ExampleFuture ==
    reduce([i \in 1..2 |->
               calculateFutureValue(pageAssets[i].currentValue,
                                    pageAssets[i].growthRate,
                                    pageAssets[i].projectionYears)])

RECURSIVE SumOfQuotients(_)
SumOfQuotients(qs) ==
    IF qs = <<>> THEN Quotient(Zero, One)
    ELSE LET rest == SumOfQuotients(Tail(qs))
             q == Head(qs)
         IN Quotient(DecAdd(DecMul(q.num, rest.den), DecMul(rest.num, q.den)),
                     DecMul(q.den, rest.den))

QuotientIs(q, number) == q.num = DecMul(number, q.den)

\* entries (with fields category, value, percentage) are the allocation of
\* rows (with fields category, current_value)
IsAllocation(entries, rows) ==
    LET present == {rows[i].category : i \in DOMAIN rows}
        totalValue == Total([i \in DOMAIN rows |-> rows[i].current_value])
        percentages == [k \in DOMAIN entries |-> entries[k].percentage]
    IN /\ {entries[k].category : k \in DOMAIN entries} = present
       /\ Len(entries) = Cardinality(present)
       /\ \A k \in DOMAIN entries :
             entries[k].value =
                 Total([i \in DOMAIN rows |->
                           IF rows[i].category = entries[k].category
                           THEN rows[i].current_value ELSE Zero])
       /\ DecPositive(totalValue) =>
             QuotientIs(SumOfQuotients(percentages), DecInt(100))
       /\ totalValue = Zero =>
             \A k \in DOMAIN entries : QuotientIs(percentages[k], Zero)

\* C22: for every asset collection of one client, the allocation (of
\* calculateAssetAllocation and of the asset_allocation view) has exactly one
\* entry per category present, each entry's value is the sum of current_value
\* over the assets of the category, the percentages sum to 100 when the total
\* value is > 0, and every percentage is 0 when the total value is 0.
C22_AllocationSumsTo100 ==
    /\ Returned("calculateAssetAllocation") =>
          \A alloc \in calc.value :
              IsAllocation(
                  [k \in DOMAIN alloc |->
                      [category |-> alloc[k].category, value |-> alloc[k].value,
                       percentage |-> alloc[k].percentage]],
                  [i \in DOMAIN calc.arg |->
                      [category |-> calc.arg[i].asset_type,
                       current_value |-> calc.arg[i].current_value]])
    /\ Returned("asset_allocation") =>
          \A view \in calc.value :
              /\ view.error = ""
              /\ IsAllocation(
                     [k \in DOMAIN view.rows |->
                         [category |-> view.rows[k].asset_category,
                          value |-> view.rows[k].total_value,
                          percentage |-> Quotient(view.rows[k].percentage, One)]],
                     [i \in DOMAIN calc.arg |->
                         [category |-> calc.arg[i].asset_category,
                          current_value |-> calc.arg[i].current_value]])

\* ------------------------------------------------------------------- C23
\* the risk tier of a category as the lookup is described
Tier(category) ==
    CASE category = "savings" -> "low"
      [] category = "investment" -> "high"
      [] category \in {"residence", "rrsp", "tfsa"} -> "medium"
      [] OTHER -> "medium"

\* C23: the risk tier of every allocation entry is the fixed lookup of its
\* category: savings low, investment high, residence, rrsp and tfsa medium,
\* every category absent from the table medium, whatever assets are in it.
C23_RiskTierIsFixedLookup ==
    Returned("calculateAssetAllocation") =>
        \A alloc \in calc.value : \A k \in DOMAIN alloc :
            alloc[k].risk_level = Tier(alloc[k].category)

\* an allocation with a category of the table and one absent from it
C23_Witness ==
    /\ Returned("calculateAssetAllocation")
    /\ \E alloc \in calc.value : \E j, k \in DOMAIN alloc :
          /\ alloc[j].category = "other" /\ alloc[j].risk_level = "medium"
          /\ alloc[k].category = "savings" /\ alloc[k].risk_level = "low"


\* ------------------------------------------------------------------- C24
\* monthly_amount of a row, a NULL counting as 0
AmountOf(row) == IF row.monthly_amount = {} THEN Zero
                 ELSE CHOOSE x \in row.monthly_amount : TRUE

\* income of the active sources minus expenses
ActiveCashFlow(incomes, expenses) ==
    DecSub(Total([i \in DOMAIN incomes |->
                     IF incomes[i].is_active THEN AmountOf(incomes[i]) ELSE Zero]),
           Total([i \in DOMAIN expenses |-> expenses[i].monthly_amount]))

\* C24: the net monthly cash flow of a client context, and the monthly
\* surplus of calculate_monthly_cash_flow, is the sum of monthly_amount over
\* the client's active income sources minus the sum over the client's
\* expenses; an income source that is not active contributes nothing.
C24_CashFlowCountsActiveIncome ==
    /\ Returned("buildClientContext") =>
          \A context \in calc.value :
              context.portfolio.monthly_cash_flow =
                  ActiveCashFlow(calc.arg.client.income_sources,
                                 calc.arg.client.expenses)
    /\ Returned("calculate_monthly_cash_flow") =>
          \A flow \in calc.value :
              flow.monthly_surplus =
                  ActiveCashFlow(calc.arg.income_sources, calc.arg.expenses)

\* ------------------------------------------------------------------- C25
\* (month, day) of date t is before (month, day) of date b
EarlierInYear(t, b) == t.month < b.month \/ (t.month = b.month /\ t.day < b.day)

NotAfter(b, t) ==
    \/ b.year < t.year
    \/ b.year = t.year /\ ~EarlierInYear(t, b)

\* C25: for every birth date b and current date t with b <= t, calculateAge
\* returns year(t) - year(b), less one exactly when the (month, day) of t is
\* before the (month, day) of b.
C25_AgeIsWholeYearsElapsed ==
    (Returned("calculateAge") /\ NotAfter(calc.arg.birthDate, calc.arg.today)) =>
        calc.value =
            {calc.arg.today.year - calc.arg.birthDate.year
                - (IF EarlierInYear(calc.arg.today, calc.arg.birthDate) THEN 1 ELSE 0)}

\* ------------------------------------------------------------------- C30
\* C30: in every context buildClientContext returns, net_worth is
\* total_assets - total_liabilities with total_assets the sum of the client's
\* asset current values, and it is the net_worth calculate_portfolio_totals
\* reports for the same client.
C30_NetWorthMatchesDatabase ==
    Returned("buildClientContext") =>
        \A context \in calc.value :
            LET portfolio == context.portfolio
                client == calc.arg.client
            IN /\ portfolio.total_assets =
                      Total([i \in DOMAIN client.assets |->
                                client.assets[i].current_value])
               /\ portfolio.net_worth =
                      DecSub(portfolio.total_assets, portfolio.total_liabilities)
               /\ portfolio.net_worth =
                      calculate_portfolio_totals(client.assets,
                                                 client.liabilities).net_worth


\* ------------------------------------------------------------------- C26
\* the three computations of a future value agree on an asset whose rate is
\* stored as the percentage p: calculations.ts and the database take p, the
\* UI's calculateFutureValue takes the fraction p / 100
PathsAgree ==
    \A a \in AssetRecords :
        LET aggregator ==
                calculations_calculateFutureValue(a.current_value, a.growth_rate,
                                                  a.projection_years)
            database == calculate_portfolio_totals(<<a>>, <<>>).projected_assets
            ui == calculateFutureValue(a.current_value, DecShift(a.growth_rate, 2),
                                       a.projection_years)
        IN aggregator = database /\ database = ui

\* a step of the page keeps the dashboard's growthRate the percentage / 100:
\* the input of the growth rate opens on growthRate * 100, and a save of the
\* percentage typed stores that percentage / 100 and the future value the
\* aggregator computes for the percentage
C26_Step ==
    \A i \in Cards :
        /\ (isEditing[i] = "null" /\ isEditing'[i] = "growthRate") =>
              parseFloat(tempValue'[i]) = {DecMul(pageAssets[i].growthRate, DecInt(100))}
        /\ (isEditing[i] = "growthRate" /\ isEditing'[i] = "null"
                /\ ~isNaN(parseFloat(tempValue[i]))) =>
              \A percentage \in parseFloat(tempValue[i]) :
                  /\ pageAssets'[i].growthRate = DecShift(percentage, 2)
                  /\ pageAssets'[i].futureValue =
                         calculations_calculateFutureValue(
                             pageAssets'[i].currentValue, percentage,
                             pageAssets'[i].projectionYears)

\* C26: one growth-rate representation: the aggregator's calculateFutureValue
\* and calculate_portfolio_totals given the percentage and the UI's
\* calculateFutureValue given the fraction compute the same future value, and
\* the growthRate the dashboard stores is the percentage divided by 100.
C26_OneRateRepresentation == PathsAgree /\ [][C26_Step]_vars

\* a growth rate of 5 (percent) has been typed and saved
C26_Witness ==
    \E i \in Cards :
        /\ isEditing[i] = "null"
        /\ tempValue[i] = Text(DecInt(5))
        /\ pageAssets[i].growthRate = Dec(5, 2)
        /\ pageAssets[i].futureValue =
               calculations_calculateFutureValue(pageAssets[i].currentValue,
                                                 DecInt(5),
                                                 pageAssets[i].projectionYears)

\* ------------------------------------------------------------------- C27
\* C27: an asset of the dashboard that has been saved (it is no longer the
\* asset the page started with) has futureValue =
\* calculateFutureValue(currentValue, growthRate, projectionYears) of its own
\* fields, after any sequence of saves, a save run twice by Enter and blur
\* included.
C27_FutureValueFollowsFields ==
    \A i \in Cards :
        pageAssets[i] # initialAssets[i] =>
            pageAssets[i].futureValue =
                calculateFutureValue(pageAssets[i].currentValue,
                                     pageAssets[i].growthRate,
                                     pageAssets[i].projectionYears)

\* an asset saved on two of its fields, the last save by Enter
C27_Witness ==
    /\ pressed = "Enter"
    /\ \E i \in Cards :
          /\ pageAssets[i].currentValue # initialAssets[i].currentValue
          /\ pageAssets[i].growthRate # initialAssets[i].growthRate
          /\ pageAssets[i].futureValue =
                 calculateFutureValue(pageAssets[i].currentValue,
                                      pageAssets[i].growthRate,
                                      pageAssets[i].projectionYears)

\* ------------------------------------------------------------------- C28
AssetFields == {"id", "name", "type", "currentValue", "futureValue",
                "growthRate", "projectionYears"}

\* updates whose asset id is not in the list
AbsentIdChangesNothing ==
    \A updates \in {[currentValue |-> Zero, futureValue |-> Zero],
                    [growthRate |-> One]} :
        handleAssetUpdate(pageAssets, "0", updates) = pageAssets

\* a step changes at most the asset of the card being saved, and of it only
\* the field saved and futureValue (the updates handleSave passes)
C28_Step ==
    /\ AbsentIdChangesNothing
    /\ DOMAIN pageAssets' = DOMAIN pageAssets
    /\ \A i \in DOMAIN pageAssets : pageAssets'[i].id = pageAssets[i].id
    /\ Cardinality({i \in DOMAIN pageAssets : pageAssets'[i] # pageAssets[i]}) <= 1
    /\ \A i \in DOMAIN pageAssets :
          pageAssets'[i] # pageAssets[i] =>
              /\ isEditing[i] # "null"
              /\ \A f \in AssetFields \ {isEditing[i], "futureValue"} :
                    pageAssets'[i][f] = pageAssets[i][f]

\* C28: handleAssetUpdate(assetId, updates) changes only the asset whose id
\* is assetId and only the fields of updates; every other asset, and the
\* number, order and ids of the assets, are the same after any sequence of
\* updates; an update for an id not in the list changes nothing.
C28_UpdateChangesNamedAssetOnly == [][C28_Step]_vars

\* the first asset has been updated, the second is as the page started
C28_Witness ==
    /\ Len(pageAssets) >= 2
    /\ pageAssets[1].currentValue # initialAssets[1].currentValue
    /\ pageAssets[2] = initialAssets[2]

\* ------------------------------------------------------------------- C29
C29_Step ==
    /\ pressed' = "Escape" =>
          /\ pageAssets' = pageAssets
          /\ \A i \in Cards : isEditing'[i] = "null"
    /\ \A i \in Cards :
          (isEditing[i] # "null" /\ isEditing'[i] = "null"
              /\ isNaN(parseFloat(tempValue[i]))) => pageAssets' = pageAssets
    /\ (pressed' = "Enter" \/ pageAssets' # pageAssets) =>
          \A i \in Cards : isEditing'[i] = "null"

\* C29: an edit that is cancelled or invalid changes no asset: pressing
\* Escape while a field is being edited, or saving text that is no number,
\* leaves every asset unchanged and ends edit mode (isEditing = null); after
\* every handleSave the card is out of edit mode.
C29_CancelledOrInvalidEditChangesNothing == [][C29_Step]_vars

====
